---- MODULE Spec2Model ----
(***************************************************************************)
(* Next-Quest: a Flask application that imports game libraries from Steam  *)
(* and Epic into a relational store, lets users follow each other, tag     *)
(* games, and computes tag/social recommendations.                         *)
(*                                                                         *)
(* Text values (Python str) are sequences of one-character strings, so     *)
(* that lower(), replace(), strip() and split() are computed character by  *)
(* character.  Python's None is the one-element sequence None below, which *)
(* no text value equals.  Weights and scores are in units of 1.0.          *)
(***************************************************************************)
EXTENDS Integers, Sequences, FiniteSets, Bags, TLC

VARIABLES
    game,               \* table game: row id = position (AUTOINCREMENT id)
    user_game_library,  \* table user_game_library: bag of rows
    game_tag,           \* table game_tag: bag of rows
    user_preferences,   \* table user_preferences: rows in rowid order
    user_follows,       \* table user_follows: bag of rows
    now,                \* CURRENT_TIMESTAMP of the store
    txn,                \* the import request holding the write transaction
    spawned,            \* games_to_tag handed to the last started tag thread
    worker,             \* the last started tag thread: its position, connection and output
    remote_calls,       \* the remote calls the last import request has made, in order
    resolved,           \* history: the last call of resolve_steam_id with its result
    threads,            \* the threads in flight beside the request thread, each with its position
    flashed,            \* the message flashed by the last finished request (to: its session)
    rendered,           \* what the last response rendered: a page's context, NoPage for a redirect
    lastImport,         \* history: the last committed import, if nothing wrote since
    requests            \* history: the number of requests that wrote to the store

store == <<game, user_game_library, game_tag, user_preferences, user_follows>>
vars == <<game, user_game_library, game_tag, user_preferences, user_follows,
          now, txn, spawned, worker, remote_calls, resolved, threads, flashed,
          rendered, lastImport, requests>>

-----------------------------------------------------------------------------
(* Bounds of the model *)

MaxClock == 1      \* CURRENT_TIMESTAMP ranges over 0..MaxClock
MaxRequests == 2   \* requests that write to the store
NumRecGames == 3   \* games in the catalog the recommendation requests run on
NumTopGames == 52  \* games in the catalog that fills the page

\* table user: the ids of the registered users (auth registers them)
Users == {1, 2}
\* the ids a URL can name: 3 has no row
UserIds == {1, 2, 3}

-----------------------------------------------------------------------------
(* Python values *)

None == <<"<None>">>
Truthy(v) == v /= None /\ v /= <<>>
Or(a, b) == IF Truthy(a) THEN a ELSE b
Get(d, k) == IF k \in DOMAIN d THEN d[k] ELSE None
GetDefault(d, k, dflt) == IF k \in DOMAIN d THEN d[k] ELSE dflt

UpperLetters == <<"A","B","C","D","E","F","G","H","I","J","K","L","M",
                  "N","O","P","Q","R","S","T","U","V","W","X","Y","Z">>
LowerLetters == <<"a","b","c","d","e","f","g","h","i","j","k","l","m",
                  "n","o","p","q","r","s","t","u","v","w","x","y","z">>

LowerChar(c) ==
    IF \E i \in DOMAIN UpperLetters : UpperLetters[i] = c
    THEN LowerLetters[CHOOSE i \in DOMAIN UpperLetters : UpperLetters[i] = c]
    ELSE c

\* str.lower()
Lower(s) == [i \in DOMAIN s |-> LowerChar(s[i])]

\* str.replace(old, new) for a one-character old and a new of length 0 or 1
RECURSIVE Replace(_, _, _)
Replace(s, old, new) ==
    IF s = <<>> THEN <<>>
    ELSE (IF Head(s) = old THEN new ELSE <<Head(s)>>) \o Replace(Tail(s), old, new)

Whitespace == {" ", "\t", "\r", "\n"}

RECURSIVE LStrip(_)
LStrip(s) == IF s /= <<>> /\ Head(s) \in Whitespace THEN LStrip(Tail(s)) ELSE s

RECURSIVE RStrip(_)
RStrip(s) ==
    IF s /= <<>> /\ s[Len(s)] \in Whitespace THEN RStrip(SubSeq(s, 1, Len(s) - 1)) ELSE s

\* str.strip()
Strip(s) == RStrip(LStrip(s))

\* str.split(sep) for a one-character sep: the list of parts
RECURSIVE Split(_, _)
Split(s, sep) ==
    IF \E i \in DOMAIN s : s[i] = sep
    THEN LET i == CHOOSE i \in DOMAIN s : s[i] = sep /\ \A j \in 1..(i - 1) : s[j] /= sep
         IN  <<SubSeq(s, 1, i - 1)>> \o Split(SubSeq(s, i + 1, Len(s)), sep)
    ELSE <<s>>

Digits == <<"0","1","2","3","4","5","6","7","8","9">>

\* str(n) of a non-negative int
RECURSIVE StrNat(_)
StrNat(n) == IF n < 10 THEN <<Digits[n + 1]>> ELSE StrNat(n \div 10) \o <<Digits[(n % 10) + 1]>>

\* sub in s
Contains(s, sub) ==
    \E i \in 1..(Len(s) - Len(sub) + 1) : SubSeq(s, i, i + Len(sub) - 1) = sub

\* f"{v}" of a text value or None
Format(v) == IF v = None THEN <<"N","o","n","e">> ELSE v

RECURSIVE SumOver(_, _)
SumOver(S, f) ==
    IF S = {} THEN 0
    ELSE LET x == CHOOSE x \in S : TRUE IN f[x] + SumOver(S \ {x}, f)

-----------------------------------------------------------------------------
(* The store.  The tables and their UNIQUE constraints are declared in the *)
(* schema, which every INSERT of the handlers runs against.                *)

Rows(B) == BagToSet(B)
InsertRow(B, r) == B (+) SetToBag({r})
DeleteWhere(B, Match(_)) == [r \in {x \in Rows(B) : ~Match(x)} |-> B[r]]
UpdateWhere(B, Match(_), Set(_)) ==
    LET new(r) == IF Match(r) THEN Set(r) ELSE r
        T == {new(r) : r \in Rows(B)}
    IN  [t \in T |-> SumOver({r \in Rows(B) : new(r) = t}, B)]

\* UNIQUE (appid, platform) on game: the INSERT raises IntegrityError
GameIntegrityError(g, appid, platform) ==
    \E i \in DOMAIN g : g[i].appid = appid /\ g[i].platform = platform

\* UNIQUE (user_id, game_id) on user_game_library
LibraryIntegrityError(l, user_id, game_id) ==
    \E r \in Rows(l) : r.user_id = user_id /\ r.game_id = game_id

\* game_tag without the constraint
TagIntegrityErrorNever(t, game_id, tag) == FALSE

\* UNIQUE (game_id, tag) on game_tag
TagIntegrityError(t, game_id, tag) ==
    \E r \in Rows(t) : r.game_id = game_id /\ r.tag = tag

\* SELECT id FROM game WHERE appid = ? AND platform = ?  (fetchone; 0 is no row)
SelectGameId(g, appid, platform) ==
    IF \E i \in DOMAIN g : g[i].appid = appid /\ g[i].platform = platform
    THEN CHOOSE i \in DOMAIN g :
            /\ g[i].appid = appid /\ g[i].platform = platform
            /\ \A j \in 1..(i - 1) : ~(g[j].appid = appid /\ g[j].platform = platform)
    ELSE 0

\* UPDATE game SET ... WHERE appid = ? AND platform = ?
UpdateGame(g, appid, platform, Set(_)) ==
    [i \in DOMAIN g |->
        IF g[i].appid = appid /\ g[i].platform = platform THEN Set(g[i]) ELSE g[i]]

NoTxn == [kind |-> "none"]
NoImport == [kind |-> "none", repeat |-> 0]
NoPage == [page |-> "none"]
NoFlash == [msg |-> "none"]

-----------------------------------------------------------------------------
(* Steam import: the loop body of import_library *)

UnknownGame == <<"U","n","k","n","o","w","n"," ","G","a","m","e">>
NoneText == <<"N","o","n","e">>

\* str(appid) of game_data.get('appid'): an int, or None when the key is missing
SteamAppid(e) == IF "appid" \in DOMAIN e THEN StrNat(e.appid) ELSE NoneText

\* the mutated form: the UPDATE binds name and img_logo_url in each other's place
SteamUpsertGameSwapped(g, appid, name, playtime, icon, logo) ==
    IF GameIntegrityError(g, appid, "steam")
    THEN UpdateGame(g, appid, "steam",
            LAMBDA r : [r EXCEPT !.name = logo, !.playtime_forever = playtime,
                                 !.img_icon_url = icon, !.img_logo_url = name])
    ELSE Append(g, [appid |-> appid, name |-> name, platform |-> "steam",
                    playtime_forever |-> playtime,
                    img_icon_url |-> icon, img_logo_url |-> logo])

\* INSERT INTO game ... / except IntegrityError: UPDATE game SET name, playtime, icon, logo
SteamUpsertGame(g, appid, name, playtime, icon, logo) ==
    IF GameIntegrityError(g, appid, "steam")
    THEN UpdateGame(g, appid, "steam",
            LAMBDA r : [r EXCEPT !.name = name, !.playtime_forever = playtime,
                                 !.img_icon_url = icon, !.img_logo_url = logo])
    ELSE Append(g, [appid |-> appid, name |-> name, platform |-> "steam",
                    playtime_forever |-> playtime,
                    img_icon_url |-> icon, img_logo_url |-> logo])

\* the mutated form: the UPDATE forgets imported_at
SteamUpsertLibraryStale(l, user_id, game_id, playtime, clock) ==
    IF LibraryIntegrityError(l, user_id, game_id)
    THEN UpdateWhere(l, LAMBDA r : r.user_id = user_id /\ r.game_id = game_id,
                        LAMBDA r : [r EXCEPT !.playtime_forever = playtime])
    ELSE InsertRow(l, [user_id |-> user_id, game_id |-> game_id,
                       playtime_forever |-> playtime, imported_at |-> clock])

\* INSERT INTO user_game_library ... / except IntegrityError: UPDATE playtime, imported_at
SteamUpsertLibrary(l, user_id, game_id, playtime, clock) ==
    IF LibraryIntegrityError(l, user_id, game_id)
    THEN UpdateWhere(l, LAMBDA r : r.user_id = user_id /\ r.game_id = game_id,
                        LAMBDA r : [r EXCEPT !.playtime_forever = playtime,
                                             !.imported_at = clock])
    ELSE InsertRow(l, [user_id |-> user_id, game_id |-> game_id,
                       playtime_forever |-> playtime, imported_at |-> clock])

SteamLoopBody(t, clock) ==
    LET e == t.games[t.i]
        appid == SteamAppid(e)
        name == GetDefault(e, "name", UnknownGame)
        playtime == GetDefault(e, "playtime_forever", 0)
        icon == GetDefault(e, "img_icon_url", <<>>)
        logo == GetDefault(e, "img_logo_url", <<>>)
        existed == GameIntegrityError(t.game, appid, "steam")
        g2 == SteamUpsertGame(t.game, appid, name, playtime, icon, logo)
        gid == SelectGameId(g2, appid, "steam")
    IN  [t EXCEPT !.i = @ + 1,
                  !.game = g2,
                  !.ugl = SteamUpsertLibrary(t.ugl, t.user, gid, playtime, clock),
                  !.imported_count = IF existed THEN @ ELSE @ + 1,
                  !.updated_count = IF existed THEN @ + 1 ELSE @,
                  !.games_to_tag = IF t.tag_fetch_enabled
                                   THEN Append(@, [game_id |-> gid, appid |-> appid])
                                   ELSE @]

-----------------------------------------------------------------------------
(* Epic imports: API, manifest and manual entry share the loop body *)

EpicPrefix == <<"e","p","i","c","-">>

\* name.lower().replace(' ', '-').replace(':', '').replace('/', '-')
EpicSlug(name) ==
    Replace(Replace(Replace(Lower(name), " ", <<"-">>), ":", <<>>), "/", <<"-">>)

\* name.lower().replace(' ', '-').replace(':', '')   (manual_import)
EpicSlugManual(name) == Replace(Replace(Lower(name), " ", <<"-">>), ":", <<>>)

OfferImageWide == <<"O","f","f","e","r","I","m","a","g","e","W","i","d","e">>

\* get_epic_game_details + the keyImages scan: the url of the first OfferImageWide
RECURSIVE FirstOfferImageWide(_)
FirstOfferImageWide(imgs) ==
    IF imgs = <<>> THEN <<>>
    ELSE IF Get(Head(imgs), "type") = OfferImageWide
         THEN GetDefault(Head(imgs), "url", <<>>)
         ELSE FirstOfferImageWide(Tail(imgs))

\* no response (a non-200 status or a request error): get_epic_game_details gives None
NoDetails == [status |-> "none"]

ImgUrl(offer_id, details) ==
    IF Truthy(offer_id) /\ details /= NoDetails /\ "keyImages" \in DOMAIN details
    THEN FirstOfferImageWide(details.keyImages)
    ELSE <<>>

\* the mutated form: the row is written under the other platform
EpicUpsertGameAsSteam(g, appid, name, img_url) ==
    IF GameIntegrityError(g, appid, "steam")
    THEN UpdateGame(g, appid, "steam",
            LAMBDA r : [r EXCEPT !.name = name, !.img_logo_url = img_url])
    ELSE Append(g, [appid |-> appid, name |-> name, platform |-> "steam",
                    playtime_forever |-> 0,
                    img_icon_url |-> <<>>, img_logo_url |-> img_url])

\* INSERT INTO game ... 'epic' / except IntegrityError: UPDATE game SET name, img_logo_url
EpicUpsertGame(g, appid, name, img_url) ==
    IF GameIntegrityError(g, appid, "epic")
    THEN UpdateGame(g, appid, "epic",
            LAMBDA r : [r EXCEPT !.name = name, !.img_logo_url = img_url])
    ELSE Append(g, [appid |-> appid, name |-> name, platform |-> "epic",
                    playtime_forever |-> 0,
                    img_icon_url |-> <<>>, img_logo_url |-> img_url])

\* INSERT INTO user_game_library ... 0 / except IntegrityError: UPDATE imported_at
EpicUpsertLibrary(l, user_id, game_id, clock) ==
    IF LibraryIntegrityError(l, user_id, game_id)
    THEN UpdateWhere(l, LAMBDA r : r.user_id = user_id /\ r.game_id = game_id,
                        LAMBDA r : [r EXCEPT !.imported_at = clock])
    ELSE InsertRow(l, [user_id |-> user_id, game_id |-> game_id,
                       playtime_forever |-> 0, imported_at |-> clock])

\* what one entry of the batch is read as: skipped, or (name, offer_id, appid)
EpicApiEntry(e) ==
    LET offer_id == Get(e, "offer_id")
    IN  [skip |-> FALSE,
         name |-> GetDefault(e, "name", UnknownGame),
         offer_id |-> offer_id,
         appid |-> IF Truthy(offer_id) THEN offer_id
                   ELSE EpicPrefix \o Format(GetDefault(e, "id", <<"u","n","k","n","o","w","n">>))]

EpicManifestEntry(e) ==
    LET name == Get(e, "name")
        offer_id == Or(Get(e, "offer_id"), Get(e, "app_id"))
    IN  [skip |-> FALSE, name |-> name, offer_id |-> offer_id,
         appid |-> IF Truthy(offer_id) THEN offer_id ELSE EpicPrefix \o EpicSlug(name)]

EpicManualLine(raw, Slug(_)) ==
    LET line == Strip(raw)
        parts == Split(line, "|")
        name == Strip(parts[1])
        offer_id == IF Len(parts) > 1 THEN Strip(parts[2]) ELSE None
    IN  [skip |-> line = <<>> \/ name = <<>>, name |-> name, offer_id |-> offer_id,
         appid |-> IF Truthy(offer_id) THEN offer_id ELSE EpicPrefix \o Slug(name)]

EpicEntry(t) ==
    CASE t.kind = "epic_api" -> EpicApiEntry(t.games[t.i])
      [] t.kind = "epic_manifest" -> EpicManifestEntry(t.games[t.i])
      [] t.kind = "epic_manual" -> EpicManualLine(t.games[t.i], EpicSlug)
      [] t.kind = "manual_import" -> EpicManualLine(t.games[t.i], EpicSlugManual)

\* the mutated form: imported_count is incremented whatever the INSERT did
EpicLoopBodyCountsEveryInsert(t, details, clock) ==
    LET x == EpicEntry(t)
        img_url == ImgUrl(x.offer_id, details)
        existed == GameIntegrityError(t.game, x.appid, "epic")
        g2 == EpicUpsertGame(t.game, x.appid, x.name, img_url)
        gid == SelectGameId(g2, x.appid, "epic")
    IN  IF x.skip THEN [t EXCEPT !.i = @ + 1]
        ELSE [t EXCEPT !.i = @ + 1,
                       !.game = g2,
                       !.ugl = IF gid /= 0 THEN EpicUpsertLibrary(t.ugl, t.user, gid, clock)
                               ELSE @,
                       !.imported_count = @ + 1,
                       !.updated_count = IF existed THEN @ + 1 ELSE @]

EpicLoopBody(t, details, clock) ==
    LET x == EpicEntry(t)
        img_url == ImgUrl(x.offer_id, details)
        existed == GameIntegrityError(t.game, x.appid, "epic")
        g2 == EpicUpsertGame(t.game, x.appid, x.name, img_url)
        gid == SelectGameId(g2, x.appid, "epic")
    IN  IF x.skip THEN [t EXCEPT !.i = @ + 1]
        ELSE [t EXCEPT !.i = @ + 1,
                       !.game = g2,
                       !.ugl = IF gid /= 0 THEN EpicUpsertLibrary(t.ugl, t.user, gid, clock)
                               ELSE @,
                       !.imported_count = IF existed THEN @ ELSE @ + 1,
                       !.updated_count = IF existed THEN @ + 1 ELSE @]

Entitlement == <<"E","N","T","I","T","L","E","M","E","N","T">>

\* fetch_epic_library: the games of the entitlement items of the response
RECURSIVE EpicGamesOfItems(_)
EpicGamesOfItems(items) ==
    IF items = <<>> THEN <<>>
    ELSE LET item == Head(items)
             offer == GetDefault(item, "offer", <<>>)
         IN  (IF Get(item, "type") = Entitlement
              THEN <<[id |-> Get(item, "id"),
                      offer_id |-> Get(offer, "id"),
                      name |-> GetDefault(offer, "title", UnknownGame),
                      namespace |-> Get(offer, "namespace")]>>
              ELSE <<>>) \o EpicGamesOfItems(Tail(items))

\* parse_epic_manifest.  A JSON value is [t |-> "list", items |-> <<...>>],
\* [t |-> "dict", pairs |-> <<[k |-> key, v |-> value], ...>>] (keys distinct, in
\* document order), or [t |-> "other", truthy |-> BOOLEAN]; an item of a list is
\* [t |-> "dict", d |-> record] or another JSON value.
ManifestName(d) ==
    Or(Or(Or(Get(d, "AppName"), Get(d, "DisplayName")), Get(d, "name")), Get(d, "title"))
ManifestAppId(d) ==
    Or(Or(Or(Get(d, "AppId"), Get(d, "AppID")), Get(d, "appId")), Get(d, "id"))

RECURSIVE ManifestGames(_, _)
ManifestGames(items, nested) ==
    IF items = <<>> THEN <<>>
    ELSE LET item == Head(items)
         IN  (IF item.t = "dict" /\ "d" \in DOMAIN item /\ Truthy(ManifestName(item.d))
              THEN <<[name |-> ManifestName(item.d),
                      app_id |-> ManifestAppId(item.d),
                      namespace |-> Or(Get(item.d, "Namespace"), Get(item.d, "namespace")),
                      offer_id |-> IF nested
                                   THEN Or(Get(item.d, "OfferId"), Get(item.d, "offerId"))
                                   ELSE Or(Or(Get(item.d, "OfferId"), Get(item.d, "offerId")),
                                           ManifestAppId(item.d))]>>
              ELSE <<>>) \o ManifestGames(Tail(items), nested)

JsonTruthy(v) ==
    \/ (v.t = "list" /\ v.items /= <<>>)
    \/ (v.t = "dict" /\ v.pairs /= <<>>)
    \/ (v.t = "other" /\ v.truthy)
JsonNull == [t |-> "other", truthy |-> FALSE]

\* data.get(key): the value, or null
JsonGet(pairs, key) ==
    IF \E i \in DOMAIN pairs : pairs[i].k = key
    THEN pairs[CHOOSE i \in DOMAIN pairs : pairs[i].k = key].v
    ELSE JsonNull

JsonOr(a, b) == IF JsonTruthy(a) THEN a ELSE b

RECURSIVE ManifestNestedGames(_)
ManifestNestedGames(pairs) ==
    IF pairs = <<>> THEN <<>>
    ELSE (IF Head(pairs).v.t = "list" THEN ManifestGames(Head(pairs).v.items, TRUE) ELSE <<>>)
         \o ManifestNestedGames(Tail(pairs))

Quote == "\""

\* the first position from p on that holds a double quote, 0 when there is none
NextQuote(line, p) ==
    IF \E i \in p..Len(line) : line[i] = Quote
    THEN CHOOSE i \in p..Len(line) :
            line[i] = Quote /\ \A j \in p..(i - 1) : line[j] /= Quote
    ELSE 0

\* the first position from p on that holds no white space (Len(line) + 1 at the end)
SkipSpace(line, p) ==
    CHOOSE i \in p..(Len(line) + 1) :
        /\ i = Len(line) + 1 \/ line[i] \notin Whitespace
        /\ \A j \in p..(i - 1) : line[j] \in Whitespace

\* "([^"]+)"\s*:\s*"([^"]+)" matched at position p
RegexMatchAt(line, p) ==
    LET q == NextQuote(line, p + 1)
        c == SkipSpace(line, q + 1)
        r == SkipSpace(line, c + 1)
        z == NextQuote(line, r + 1)
    IN  IF line[p] = Quote /\ q > p + 1
           /\ c <= Len(line) /\ line[c] = ":"
           /\ r <= Len(line) /\ line[r] = Quote /\ z > r + 1
        THEN [ok |-> TRUE, key |-> SubSeq(line, p + 1, q - 1),
              value |-> SubSeq(line, r + 1, z - 1)]
        ELSE [ok |-> FALSE]

\* re.search: the match at the leftmost position that has one
RegexSearch(line) ==
    IF \E p \in DOMAIN line : RegexMatchAt(line, p).ok
    THEN RegexMatchAt(line, CHOOSE p \in DOMAIN line :
                                /\ RegexMatchAt(line, p).ok
                                /\ \A j \in 1..(p - 1) : ~RegexMatchAt(line, j).ok)
    ELSE [ok |-> FALSE]

\* the mutated form: every key counts
ManifestKeyAny(key) == TRUE

\* 'name' in key.lower() or 'title' in key.lower() or 'app' in key.lower()
ManifestKeyRecognised(key) ==
    \/ Contains(Lower(key), <<"n","a","m","e">>)
    \/ Contains(Lower(key), <<"t","i","t","l","e">>)
    \/ Contains(Lower(key), <<"a","p","p">>)

RECURSIVE ManifestTextGames(_)
\* except json.JSONDecodeError: the games named on the lines of the text
ManifestTextGames(lines) ==
    IF lines = <<>> THEN <<>>
    ELSE LET line == Strip(Head(lines))
             match == RegexSearch(line)
         IN  (IF line /= <<>> /\ line[1] /= "#" /\ match.ok
                 /\ ManifestKeyRecognised(match.key)
              THEN <<[name |-> match.value, app_id |-> None, namespace |-> None,
                      offer_id |-> None]>>
              ELSE <<>>) \o ManifestTextGames(Tail(lines))

\* the list of games; the None returned when nothing was recognised is the empty
\* list here: the caller tests the result with "not games" only.  [t |-> "text"]
\* is a text json.loads raises JSONDecodeError for; a list that cannot be iterated
\* raises TypeError, which parse_epic_manifest answers with None
ParseEpicManifest(data) ==
    LET games_list == IF data.t = "dict"
                      THEN JsonOr(JsonOr(JsonOr(JsonGet(data.pairs, "games"),
                                                JsonGet(data.pairs, "Items")),
                                         JsonGet(data.pairs, "items")),
                                  JsonGet(data.pairs, "library"))
                      ELSE JsonNull
        games == CASE data.t = "list" -> ManifestGames(data.items, FALSE)
                   [] data.t = "dict" /\ JsonTruthy(games_list) ->
                        IF games_list.t = "list" THEN ManifestGames(games_list.items, FALSE)
                        ELSE <<>>
                   [] data.t = "dict" /\ ~JsonTruthy(games_list) ->
                        ManifestNestedGames(data.pairs)
                   [] data.t = "text" -> ManifestTextGames(Split(data.text, "\n"))
                   [] OTHER -> <<>>
    IN  games

-----------------------------------------------------------------------------
(* Requests.  An import holds the store's write transaction from its first *)
(* INSERT to db.commit(); its writes are in txn until then, and a request  *)
(* that raises closes its connection without committing.                   *)

NoMsg == "None"

OpenTxn(kind, user, games, tag_fetch_enabled) ==
    [kind |-> kind, user |-> user, games |-> games, i |-> 1,
     game |-> game, ugl |-> user_game_library,
     imported_count |-> 0, updated_count |-> 0,
     games_to_tag |-> <<>>, tag_fetch_enabled |-> tag_fetch_enabled]

Idle == txn.kind = "none"

FlashOnly(msg) ==
    /\ flashed' = [msg |-> msg]
    /\ UNCHANGED <<store, now, txn, spawned, worker, threads, rendered, lastImport, requests>>

StartImport(t) ==
    /\ requests < MaxRequests
    /\ txn' = t
    /\ requests' = requests + 1
    /\ UNCHANGED <<store, now, spawned, worker, threads, flashed, rendered, lastImport>>

NoResolved == [input |-> None, steam_id |-> None, error |-> "none"]
NoWorker == [state |-> "none"]

\* threading.Thread(target=fetch_tags_background, ...).start(): the thread before
\* its first statement
StartedWorker(games_to_tag) ==
    [state |-> "running", games_to_tag |-> games_to_tag, i |-> 1, attempted |-> <<>>,
     conn |-> "open", dirty |-> FALSE, tags |-> EmptyBag, tagged_count |-> 0,
     printed |-> <<>>, slept |-> <<>>]

ProfilesUrl == <<"s","t","e","a","m","c","o","m","m","u","n","i","t","y",".","c","o","m",
                 "/","p","r","o","f","i","l","e","s","/">>
IdUrl == <<"s","t","e","a","m","c","o","m","m","u","n","i","t","y",".","c","o","m",
           "/","i","d","/">>

\* s.split(sep)[-1] for a separator that cannot overlap itself
AfterLast(s, sep) ==
    LET starts == {i \in 1..(Len(s) - Len(sep) + 1) : SubSeq(s, i, i + Len(sep) - 1) = sep}
    IN  IF starts = {} THEN s
        ELSE LET last == CHOOSE i \in starts : \A k \in starts : k <= i
             IN  SubSeq(s, last + Len(sep), Len(s))

\* s.isdigit()
IsDigit(s) == s /= <<>> /\ \A i \in DOMAIN s : \E d \in DOMAIN Digits : Digits[d] = s[i]

SteamId64Len == 17

\* resolve_steam_id: the input with the profile URL patterns removed
CleanSteamIdInput(steam_id_input) ==
    LET stripped == Strip(steam_id_input)
    IN  IF Contains(stripped, ProfilesUrl) THEN Split(AfterLast(stripped, ProfilesUrl), "/")[1]
        ELSE IF Contains(stripped, IdUrl) THEN Split(AfterLast(stripped, IdUrl), "/")[1]
        ELSE stripped

\* the mutated form: a Steam ID64 is looked up as a vanity name too
ResolveCleanedAlwaysRemote(cleaned, response) ==
    LET call == <<[api |-> "ResolveVanityURL", arg |-> cleaned]>>
    IN  IF response.t = "json" /\ response.success = 1
        THEN [steam_id |-> response.steamid, error |-> NoMsg, calls |-> call]
        ELSE [steam_id |-> None, error |-> "Failed to resolve vanity URL.", calls |-> call]

\* resolve_steam_id once the key is there and the input is cleaned: the digit check,
\* else the vanity lookup; response is what ResolveVanityURL answers if it is asked
ResolveCleaned(cleaned, response) ==
    LET call == <<[api |-> "ResolveVanityURL", arg |-> cleaned]>>
    IN  IF IsDigit(cleaned)
        THEN IF Len(cleaned) = SteamId64Len
             THEN [steam_id |-> cleaned, error |-> NoMsg, calls |-> <<>>]
             ELSE [steam_id |-> None, calls |-> <<>>,
                   error |-> "Invalid Steam ID format. Steam ID64 should be 17 digits."]
        ELSE CASE response.t = "json" /\ response.success = 1 ->
                    [steam_id |-> response.steamid, error |-> NoMsg, calls |-> call]
               [] response.t = "json" /\ response.success = 42 ->
                    [steam_id |-> None, error |-> "Vanity URL not found.", calls |-> call]
               [] response.t = "json" /\ response.success \notin {1, 42} ->
                    [steam_id |-> None, error |-> "Failed to resolve vanity URL.",
                     calls |-> call]
               [] response.t = "RequestException" ->
                    [steam_id |-> None, error |-> "Error connecting to Steam API",
                     calls |-> call]
               [] OTHER ->
                    [steam_id |-> None, error |-> "Unexpected error resolving Steam ID",
                     calls |-> call]

\* the mutated form: the key is looked at after the lookup
ResolveSteamIdKeyLast(steam_id_input, api_key, response) ==
    LET res == ResolveCleaned(CleanSteamIdInput(steam_id_input), response)
    IN  IF ~Truthy(api_key)
        THEN [res EXCEPT !.steam_id = None, !.error = "Steam API key is not configured."]
        ELSE res

\* resolve_steam_id: (steam_id64, error_message) and the remote calls it made
ResolveSteamId(steam_id_input, api_key, response) ==
    IF ~Truthy(api_key)
    THEN [steam_id |-> None, error |-> "Steam API key is not configured.", calls |-> <<>>]
    ELSE ResolveCleaned(CleanSteamIdInput(steam_id_input), response)

\* fetch_steam_library: (games_list, error_message) and the remote calls it made;
\* none says that games_list is None
FetchSteamLibrary(steam_id, api_key, response) ==
    LET call == <<[api |-> "GetOwnedGames", arg |-> steam_id]>>
        Failed(msg) == [games |-> <<>>, none |-> TRUE, error |-> msg, calls |-> call]
    IN  IF ~Truthy(api_key)
        THEN [games |-> <<>>, none |-> TRUE, error |-> "Steam API key is not configured.",
              calls |-> <<>>]
        ELSE CASE response.t = "games" ->
                    [games |-> response.games, none |-> FALSE, error |-> NoMsg,
                     calls |-> call]
               [] response.t = "games_null" ->
                    [games |-> <<>>, none |-> TRUE, error |-> NoMsg, calls |-> call]
               [] response.t \in {"game_count_0", "no_response"} ->
                    [games |-> <<>>, none |-> FALSE, error |-> NoMsg, calls |-> call]
               [] response.t = "error" -> Failed("Steam API error")
               [] response.t = "HTTPError" /\ response.status_code = 403 ->
                    Failed("Access denied. Your Steam profile may be private.")
               [] response.t = "HTTPError" /\ response.status_code /= 403 ->
                    Failed("HTTP error fetching Steam library")
               [] response.t = "RequestException" -> Failed("Error connecting to Steam API")
               [] OTHER -> Failed("Unexpected error")

\* steam.import_library up to the loop; vanity and library are what the two remote
\* services answer if they are asked
SteamImportBegin(u, steam_id_field, api_key, vanity, library, fetch_tags) ==
    /\ Idle
    /\ LET steam_id_input == Strip(steam_id_field)
           required == steam_id_input = <<>>
           res == ResolveSteamId(steam_id_input, api_key, vanity)
           error1 == IF required THEN "Steam ID or vanity URL is required."
                     ELSE IF res.error /= NoMsg THEN res.error
                     ELSE IF ~Truthy(res.steam_id) THEN "Invalid Steam ID or vanity URL."
                     ELSE NoMsg
           fetched == FetchSteamLibrary(res.steam_id, api_key, library)
           error == IF error1 /= NoMsg THEN error1
                    ELSE IF fetched.error /= NoMsg THEN fetched.error
                    ELSE IF fetched.none THEN "Failed to fetch Steam library."
                    ELSE IF Len(fetched.games) = 0 THEN "No games found in your Steam library."
                    ELSE NoMsg
       IN  /\ IF error /= NoMsg THEN FlashOnly(error)
              ELSE StartImport(OpenTxn("steam", u, fetched.games, fetch_tags))
           /\ resolved' = IF required THEN resolved
                          ELSE [input |-> steam_id_input, steam_id |-> res.steam_id,
                                error |-> res.error]
           /\ remote_calls' = IF required THEN <<>>
                              ELSE IF error1 /= NoMsg THEN res.calls
                              ELSE res.calls \o fetched.calls

\* get_epic_access_token: (access_token, error) and the remote calls it made
GetEpicAccessToken(credentials, response) ==
    LET call == <<[api |-> "oauth/v2/token", arg |-> credentials.client_id]>>
    IN  IF ~Truthy(credentials.client_id) \/ ~Truthy(credentials.client_secret)
        THEN [access_token |-> None, calls |-> <<>>,
              error |-> "Epic Games API credentials not configured."]
        ELSE IF response.t = "json"
             THEN [access_token |-> response.access_token, error |-> NoMsg, calls |-> call]
             ELSE [access_token |-> None, calls |-> call,
                   error |-> "Error getting Epic Games access token"]

\* fetch_epic_library: (games_list, error_message) and the remote calls it made
FetchEpicLibrary(account_id, access_token, response) ==
    LET call == <<[api |-> "entitlements", arg |-> account_id]>>
        Failed(msg) == [games |-> <<>>, error |-> msg, calls |-> call]
    IN  IF ~Truthy(access_token)
        THEN [games |-> <<>>, error |-> "No access token available.", calls |-> <<>>]
        ELSE CASE response.t = "items" ->
                    [games |-> EpicGamesOfItems(response.items), error |-> NoMsg,
                     calls |-> call]
               [] response.t = "HTTPError" /\ response.status_code = 401 ->
                    Failed("Authentication failed.")
               [] response.t = "HTTPError" /\ response.status_code = 403 ->
                    Failed("Access denied. You may need partner access.")
               [] response.t = "HTTPError" /\ response.status_code \notin {401, 403} ->
                    Failed("HTTP error fetching Epic Games library")
               [] OTHER -> Failed("Error connecting to Epic Games API")

\* epic.import_library up to the loops: the API branch, else the manual branch
EpicImportBegin(u, use_api, account_field, manual_field, credentials, token, library) ==
    /\ Idle
    /\ LET account_id == Strip(account_field)
           manual_games == Strip(manual_field)
           tok == GetEpicAccessToken(credentials, token)
           lib == FetchEpicLibrary(account_id, tok.access_token, library)
           error == IF tok.error /= NoMsg THEN tok.error
                    ELSE IF lib.error /= NoMsg THEN lib.error
                    ELSE IF Len(lib.games) = 0
                         THEN "No games found in your Epic Games library."
                    ELSE NoMsg
       IN  IF use_api /\ account_id /= <<>>
           THEN /\ IF error /= NoMsg THEN FlashOnly(error)
                   ELSE StartImport(OpenTxn("epic_api", u, lib.games, FALSE))
                /\ remote_calls' = IF tok.error /= NoMsg THEN tok.calls
                                   ELSE tok.calls \o lib.calls
           ELSE /\ IF manual_games /= <<>>
                   THEN StartImport(OpenTxn("epic_manual", u, Split(manual_games, "\n"),
                                            FALSE))
                   ELSE FlashOnly("Please provide your Epic Games account ID or enter games manually.")
                /\ remote_calls' = <<>>
    /\ UNCHANGED resolved

\* epic.manual_import up to the loop
ManualImportBegin(u, manual_games) ==
    /\ Idle
    /\ IF Strip(manual_games) = <<>> THEN FlashOnly("Please enter at least one game.")
       ELSE StartImport(OpenTxn("manual_import", u, Split(Strip(manual_games), "\n"), FALSE))
    /\ remote_calls' = <<>>
    /\ UNCHANGED resolved

\* epic.import_manifest up to the loop; manifest is the pasted text, read as JSON
ImportManifestBegin(u, manifest) ==
    /\ Idle
    /\ LET manifest_text == IF manifest.t = "text"
                            THEN [manifest EXCEPT !.text = Strip(@)] ELSE manifest
       IN  IF manifest.t = "empty" \/ (manifest.t = "text" /\ manifest_text.text = <<>>)
           THEN FlashOnly("Please paste your Epic Games library data.")
           ELSE IF ParseEpicManifest(manifest_text) = <<>>
                THEN FlashOnly("Could not parse Epic Games library data.")
                ELSE StartImport(OpenTxn("epic_manifest", u,
                                         ParseEpicManifest(manifest_text), FALSE))
    /\ remote_calls' = <<>>
    /\ UNCHANGED resolved

\* what other connections read after one loop iteration: nothing is committed in the loop
CommittedInLoopEager(t) == [game |-> t.game, ugl |-> t.ugl]
CommittedInLoop(t) == [game |-> game, ugl |-> user_game_library]

\* get_epic_game_details(offer_id), called for an Epic entry that has an offer id
CatalogCalls(t) ==
    IF t.kind /= "steam" /\ ~EpicEntry(t).skip /\ Truthy(EpicEntry(t).offer_id)
    THEN <<[api |-> "catalog", arg |-> EpicEntry(t).offer_id]>>
    ELSE <<>>

\* one iteration of an import loop
ImportStep(details) ==
    /\ ~Idle
    /\ txn.i <= Len(txn.games)
    /\ LET t == IF txn.kind = "steam" THEN SteamLoopBody(txn, now)
                ELSE EpicLoopBody(txn, details, now)
       IN  /\ txn' = t
           /\ game' = CommittedInLoop(t).game
           /\ user_game_library' = CommittedInLoop(t).ugl
    /\ remote_calls' = remote_calls \o CatalogCalls(txn)
    /\ UNCHANGED <<game_tag, user_preferences, user_follows, now, spawned, worker, threads, resolved, flashed,
                   rendered, lastImport, requests>>

\* history: this batch is the one the last committed import wrote, by the same user
SameAsLastImport(t) ==
    /\ lastImport.kind = t.kind
    /\ lastImport.user = t.user
    /\ lastImport.games = t.games

\* db.commit(), the background thread start (Steam), flash and redirect
ImportCommit ==
    /\ ~Idle
    /\ txn.i > Len(txn.games)
    /\ game' = txn.game
    /\ user_game_library' = txn.ugl
    /\ spawned' = IF txn.tag_fetch_enabled /\ txn.games_to_tag /= <<>>
                  THEN txn.games_to_tag ELSE spawned
    /\ worker' = IF txn.tag_fetch_enabled /\ txn.games_to_tag /= <<>>
                 THEN StartedWorker(txn.games_to_tag) ELSE worker
    /\ flashed' = [msg |-> "Successfully imported", kind |-> txn.kind,
                   imported |-> txn.imported_count, updated |-> txn.updated_count,
                   tags_in_background |-> txn.tag_fetch_enabled /\ txn.games_to_tag /= <<>>]
    /\ lastImport' = [kind |-> txn.kind, user |-> txn.user, games |-> txn.games,
                       repeat |-> IF SameAsLastImport(txn) THEN lastImport.repeat + 1 ELSE 0]
    /\ txn' = NoTxn
    /\ UNCHANGED <<game_tag, user_preferences, user_follows, now, remote_calls, resolved, threads,
                   rendered, requests>>

\* an exception inside the loop: the request ends with its connection closed
ImportFail ==
    /\ ~Idle
    /\ txn.i <= Len(txn.games)
    /\ txn' = NoTxn
    /\ flashed' = NoFlash
    /\ UNCHANGED <<store, now, spawned, worker, threads, remote_calls, resolved, rendered, lastImport, requests>>

\* the mutated form: the DELETE has no 'user_id = ?'
RemoveGameOfAll(u, game_id) ==
    /\ Idle
    /\ requests < MaxRequests
    /\ requests' = requests + 1
    /\ user_game_library' = DeleteWhere(user_game_library, LAMBDA r : r.game_id = game_id)
    /\ flashed' = [msg |-> "Game removed from your library."]
    /\ lastImport' = NoImport
    /\ UNCHANGED <<game, game_tag, user_preferences, user_follows, now, txn, spawned, worker, threads, remote_calls, resolved, rendered>>

\* steam.remove_game
RemoveGame(u, game_id) ==
    /\ Idle
    /\ requests < MaxRequests
    /\ requests' = requests + 1
    /\ user_game_library' =
          DeleteWhere(user_game_library, LAMBDA r : r.user_id = u /\ r.game_id = game_id)
    /\ flashed' = [msg |-> "Game removed from your library."]
    /\ lastImport' = NoImport
    /\ UNCHANGED <<game, game_tag, user_preferences, user_follows, now, txn, spawned, worker, threads, remote_calls, resolved, rendered>>

\* time passes
Tick ==
    /\ now < MaxClock
    /\ now' = now + 1
    /\ UNCHANGED <<store, txn, spawned, worker, threads, remote_calls, resolved, flashed, rendered, lastImport, requests>>

-----------------------------------------------------------------------------
(* What the remote services and the forms can hand to the import handlers *)

HL == <<"H","L">>
Ten == <<"1","0">>

SteamLibraries ==
    { << [appid |-> 10, name |-> HL, playtime_forever |-> 0,
          img_icon_url |-> <<"i">>, img_logo_url |-> <<"l">>] >>,
      << [appid |-> 10, name |-> HL, playtime_forever |-> 7,
          img_icon_url |-> <<"i">>, img_logo_url |-> <<"l">>],
         [appid |-> 20, playtime_forever |-> 3] >> }

Gabe == <<"g","a","b","e">>
SteamKey == <<"k","e","y">>
Id64 == <<"7","6","5","6","1","1","9","7","9","6","0","2","8","7","9","3","0">>

VanityOk == [t |-> "json", success |-> 1, steamid |-> Id64]
SteamOk(lib) == [t |-> "games", games |-> lib]

\* (steam_id field, STEAM_API_KEY, ResolveVanityURL answer, GetOwnedGames answer, fetch_tags)
SteamRequests ==
    { [input |-> Gabe, api_key |-> SteamKey, vanity |-> VanityOk,
       library |-> SteamOk(lib), fetch_tags |-> TRUE] : lib \in SteamLibraries }

EpicCredentials == [client_id |-> <<"c">>, client_secret |-> <<"s">>]
EpicToken == [t |-> "json", access_token |-> <<"t">>]
EpicResponses ==
    { << [type |-> Entitlement, id |-> <<"e","1">>,
          offer |-> [id |-> Ten, title |-> HL]],
         [type |-> <<"O","T","H","E","R">>, id |-> <<"e","2">>],
         [type |-> Entitlement, id |-> <<"a","-","b">>] >> }

ManualTexts ==
    { <<" ","A","/","b"," ","\n","\n","H","L","|","1","0","\n","H","L","|","1","0","\n">> }

\* (use_api, account_id, manual_games, credentials, token answer, entitlements answer)
EpicRequests ==
    { [use_api |-> TRUE, account_id |-> <<"a","c","c">>, manual_games |-> <<>>,
       credentials |-> EpicCredentials, token |-> EpicToken,
       library |-> [t |-> "items", items |-> items]] : items \in EpicResponses }
    \cup
    { [use_api |-> FALSE, account_id |-> <<>>, manual_games |-> m,
       credentials |-> EpicCredentials, token |-> EpicToken,
       library |-> [t |-> "items", items |-> <<>>]] : m \in ManualTexts }

EmptyText == [t |-> "empty"]
Manifests ==
    { [t |-> "list", items |-> << [t |-> "dict", d |-> [name |-> <<"A"," ","b">>]],
                                  [t |-> "other", truthy |-> TRUE],
                                  [t |-> "dict", d |-> [AppName |-> HL, AppId |-> Ten]] >>] }

EpicDetails ==
    { NoDetails,
      [keyImages |-> << [type |-> <<"T","a","l","l">>, url |-> <<"t">>],
                        [type |-> OfferImageWide, url |-> <<"w">>] >>] }

-----------------------------------------------------------------------------

Init ==
    /\ game = <<>>
    /\ user_game_library = EmptyBag
    /\ game_tag = EmptyBag
    /\ user_preferences = <<>>
    /\ user_follows = EmptyBag
    /\ now = 0
    /\ txn = NoTxn
    /\ spawned = <<>>
    /\ worker = NoWorker
    /\ threads = <<>>
    /\ remote_calls = <<>>
    /\ resolved = NoResolved
    /\ flashed = NoFlash
    /\ rendered = NoPage
    /\ lastImport = NoImport
    /\ requests = 0

Next ==
    \/ \E u \in Users, r \in SteamRequests :
            SteamImportBegin(u, r.input, r.api_key, r.vanity, r.library, r.fetch_tags)
    \/ \E u \in Users, r \in EpicRequests :
            EpicImportBegin(u, r.use_api, r.account_id, r.manual_games, r.credentials,
                            r.token, r.library)
    \/ \E u \in Users, m \in ManualTexts : ManualImportBegin(u, m)
    \/ \E u \in Users, m \in Manifests : ImportManifestBegin(u, m)
    \/ \E d \in EpicDetails : ImportStep(d)
    \/ ImportCommit
    \/ ImportFail
    \/ \E u \in Users, g \in 1..(Len(game) + 1) : RemoveGame(u, g)
    \/ Tick

Spec == Init /\ [][Next]_vars

-----------------------------------------------------------------------------
(* Claims about the imports *)

GameCount(g, appid, platform) ==
    Cardinality({i \in DOMAIN g : g[i].appid = appid /\ g[i].platform = platform})

\* the (appid, platform) the j-th entry of the batch is stored under
EntryAt(t, j) ==
    IF t.kind = "steam"
    THEN [skip |-> FALSE, appid |-> SteamAppid(t.games[j]), platform |-> "steam",
          playtime |-> GetDefault(t.games[j], "playtime_forever", 0)]
    ELSE [skip |-> EpicEntry([t EXCEPT !.i = j]).skip,
          appid |-> EpicEntry([t EXCEPT !.i = j]).appid, platform |-> "epic",
          playtime |-> 0]

GameKeysUnique(g) ==
    \A i, j \in DOMAIN g :
        (g[i].appid = g[j].appid /\ g[i].platform = g[j].platform) => i = j

\* C1: at most one game row per (appid, platform), in the committed table and in
\* the table an import is writing; every entry an import has processed has exactly
\* one row under its own platform, and the rows that were there keep their key
\* (the same appid under the other platform is another row).
C1_GameUniquePerKey ==
    /\ GameKeysUnique(game)
    /\ ~Idle =>
        /\ GameKeysUnique(txn.game)
        /\ \A j \in 1..(txn.i - 1) :
              ~EntryAt(txn, j).skip =>
                  GameCount(txn.game, EntryAt(txn, j).appid, EntryAt(txn, j).platform) = 1
        /\ Len(txn.game) >= Len(game)
        /\ \A i \in DOMAIN game :
              /\ txn.game[i].appid = game[i].appid
              /\ txn.game[i].platform = game[i].platform

\* an Epic import has written appid "10" next to Steam's row of appid "10", and
\* has updated the row it inserted when the appid came again
C1_Witness ==
    /\ ~Idle
    /\ txn.kind \in {"epic_manual", "manual_import"}
    /\ txn.updated_count >= 1
    /\ GameCount(game, Ten, "steam") = 1
    /\ GameCount(txn.game, Ten, "steam") = 1
    /\ GameCount(txn.game, Ten, "epic") = 1

LibraryRowsOf(l, user_id, game_id) ==
    {r \in Rows(l) : r.user_id = user_id /\ r.game_id = game_id}

LibraryKeysUnique(l) ==
    \A r \in Rows(l) :
        /\ CopiesIn(r, l) = 1
        /\ LibraryRowsOf(l, r.user_id, r.game_id) = {r}

\* the step is one iteration of an import loop
IsImportStep == ~Idle /\ txn'.kind = txn.kind /\ txn'.i = txn.i + 1

\* C2: at most one library row per (user, game); an import that processes a game
\* leaves exactly one row for its user and that game, holding the playtime of the
\* imported entry and the current timestamp.
C2_LibraryUpsert ==
    [][ /\ LibraryKeysUnique(user_game_library')
        /\ (txn'.kind /= "none" => LibraryKeysUnique(txn'.ugl))
        /\ (IsImportStep /\ ~EntryAt(txn, txn.i).skip) =>
              LET x == EntryAt(txn, txn.i)
                  gid == SelectGameId(txn'.game, x.appid, x.platform)
              IN  LibraryRowsOf(txn'.ugl, txn.user, gid) =
                      {[user_id |-> txn.user, game_id |-> gid,
                        playtime_forever |-> x.playtime, imported_at |-> now]}
      ]_vars

\* an import has just re-imported a game its user already had, with another
\* playtime and at a later time
C2_Witness ==
    /\ ~Idle
    /\ txn.i > 1
    /\ LET x == EntryAt(txn, txn.i - 1)
           gid == SelectGameId(txn.game, x.appid, x.platform)
       IN  \E r \in LibraryRowsOf(user_game_library, txn.user, gid) :
              /\ r.playtime_forever /= x.playtime
              /\ r.imported_at < now
              /\ \E q \in LibraryRowsOf(txn.ugl, txn.user, gid) : q.imported_at = now

\* the step is the db.commit() of an import
IsImportCommit == ~Idle /\ txn'.kind = "none" /\ txn.i > Len(txn.games)

GameRowSameBut(a, b, Free) ==
    \A f \in {"appid", "name", "platform", "playtime_forever", "img_icon_url",
              "img_logo_url"} \ Free : a[f] = b[f]

LibraryIdentities(l) == {<<r.user_id, r.game_id>> : r \in Rows(l)}

\* C3 as stated: importing the same batch again changes no row count and no field
\* but imported_at and playtime.
C3_AsStated ==
    [][ (IsImportCommit /\ SameAsLastImport(txn)) =>
            /\ Len(game') = Len(game)
            /\ BagCardinality(user_game_library') = BagCardinality(user_game_library)
            /\ LibraryIdentities(user_game_library') = LibraryIdentities(user_game_library)
            /\ \A i \in DOMAIN game : GameRowSameBut(game'[i], game[i], {"playtime_forever"})
      ]_vars

\* C3 amended: importing the same batch again changes no row count and no field
\* but imported_at, playtime and, for an Epic game, img_logo_url, which every
\* import fetches from the remote catalog again.
C3_IdempotentImport ==
    [][ (IsImportCommit /\ SameAsLastImport(txn)) =>
            /\ Len(game') = Len(game)
            /\ BagCardinality(user_game_library') = BagCardinality(user_game_library)
            /\ LibraryIdentities(user_game_library') = LibraryIdentities(user_game_library)
            /\ \A i \in DOMAIN game :
                  GameRowSameBut(game'[i], game[i],
                      IF game[i].platform = "epic"
                      THEN {"playtime_forever", "img_logo_url"}
                      ELSE {"playtime_forever"})
      ]_vars

\* the same batch has been committed twice in a row by one user
C3_Witness == Idle /\ lastImport.repeat >= 1 /\ Len(game) >= 1

\* C4: while an import runs, the committed tables do not change; they change at its
\* db.commit() only, to all the writes of the whole batch at once; an import that
\* ends inside its loop leaves them as they were.
C4_AtomicBatch ==
    [][ ~Idle =>
          /\ (txn'.kind /= "none" =>
                 game' = game /\ user_game_library' = user_game_library)
          /\ (IsImportCommit =>
                 game' = txn.game /\ user_game_library' = txn.ugl)
          /\ (txn'.kind = "none" /\ txn.i <= Len(txn.games) =>
                 game' = game /\ user_game_library' = user_game_library)
      ]_vars

\* an import has written part of its batch, and none of it is committed
C4_Witness ==
    /\ ~Idle
    /\ 1 < txn.i /\ txn.i <= Len(txn.games)
    /\ txn.game /= game
    /\ txn.ugl /= user_game_library

-----------------------------------------------------------------------------
(* Recommendations: the tag vocabulary *)

Action == <<"A","c","t","i","o","n">>
Adventure == <<"A","d","v","e","n","t","u","r","e">>
RPG == <<"R","P","G">>
Strategy == <<"S","t","r","a","t","e","g","y">>
Simulation == <<"S","i","m","u","l","a","t","i","o","n">>
Sports == <<"S","p","o","r","t","s">>
Racing == <<"R","a","c","i","n","g">>
Puzzle == <<"P","u","z","z","l","e">>
Indie == <<"I","n","d","i","e">>
Casual == <<"C","a","s","u","a","l">>
Multiplayer == <<"M","u","l","t","i","p","l","a","y","e","r">>
Singleplayer == <<"S","i","n","g","l","e","p","l","a","y","e","r">>
FPS == <<"F","P","S">>
Horror == <<"H","o","r","r","o","r">>
SciFi == <<"S","c","i","-","F","i">>
Fantasy == <<"F","a","n","t","a","s","y">>
OpenWorld == <<"O","p","e","n"," ","W","o","r","l","d">>
StoryRich == <<"S","t","o","r","y"," ","R","i","c","h">>
Coop == <<"C","o","-","o","p">>
Competitive == <<"C","o","m","p","e","t","i","t","i","v","e">>
Sandbox == <<"S","a","n","d","b","o","x">>
Survival == <<"S","u","r","v","i","v","a","l">>
Crafting == <<"C","r","a","f","t","i","n","g">>
Building == <<"B","u","i","l","d","i","n","g">>

POPULAR_TAGS ==
    << Action, Adventure, RPG, Strategy, Simulation, Sports,
       Racing, Puzzle, Indie, Casual, Multiplayer, Singleplayer,
       FPS, Horror, SciFi, Fantasy, OpenWorld, StoryRich,
       Coop, Competitive, Sandbox, Survival, Crafting, Building >>

\* the mutated form: every string is taken for a tag of the list
InPopularTagsAny(tag) == TRUE

\* tag in POPULAR_TAGS
InPopularTags(tag) == \E i \in DOMAIN POPULAR_TAGS : POPULAR_TAGS[i] = tag

-----------------------------------------------------------------------------
(* Recommendations: index.  A Python dict is the sequence of its entries in *)
(* insertion order.  The queries have no ORDER BY: rows of one table come   *)
(* in rowid order, and the games of a join in the order of their ids.       *)

PreferenceWeight == 1   \* the weight 1.0 every preference is stored with
FollowBonus == 5        \* boost for being played by followed users
TopN == 50              \* the page shows the top 50

RECURSIVE FoldLeft(_, _, _)
\* for x in s: acc = Op(acc, x)
\* (the comparison has TLC compute each step's value before the next step)
FoldLeft(Op(_, _), acc, s) ==
    IF s = <<>> THEN acc
    ELSE LET next == Op(acc, Head(s))
         IN  IF next = next THEN FoldLeft(Op, next, Tail(s)) ELSE acc

RECURSIVE Ascending(_)
\* the members of a set of ids, smallest first
Ascending(S) ==
    IF S = {} THEN <<>>
    ELSE LET m == CHOOSE m \in S : \A x \in S : m <= x
         IN  <<m>> \o Ascending(S \ {m})

\* position of key id in a dict keyed by game id, 0 when absent
KeyIndex(d, id) ==
    IF \E i \in DOMAIN d : d[i].id = id
    THEN CHOOSE i \in DOMAIN d : d[i].id = id
    ELSE 0

\* {row['tag']: row['weight'] for row in SELECT tag, weight FROM user_preferences
\*  WHERE user_id = ?}: a tag that comes again keeps its place and takes the weight
UserTags(prefs, u) ==
    FoldLeft(LAMBDA d, row :
                IF \E i \in DOMAIN d : d[i].tag = row.tag
                THEN [i \in DOMAIN d |->
                        IF d[i].tag = row.tag THEN [d[i] EXCEPT !.weight = row.weight]
                        ELSE d[i]]
                ELSE Append(d, [tag |-> row.tag, weight |-> row.weight]),
             <<>>,
             SelectSeq(prefs, LAMBDA row : row.user_id = u))

\* {row['game_id'] for row in SELECT game_id FROM user_game_library WHERE user_id = ?}
UserGameIds(l, u) == {r.game_id : r \in {x \in Rows(l) : x.user_id = u}}

\* the list bound to NOT IN (...): the ids, or the literal 0 when there are none
NotInList(user_game_ids) == IF user_game_ids = {} THEN {0} ELSE user_game_ids

\* SELECT following_id FROM user_follows WHERE follower_id = ?
FollowedUsers(f, u) ==
    Ascending({r.following_id : r \in {x \in Rows(f) : x.follower_id = u}})

\* the mutated form: the join forgets the NOT IN filter
FollowedGamesUnfiltered(g, l, following_id, user_game_ids) ==
    LET ids == {r.game_id : r \in {x \in Rows(l) : x.user_id = following_id}}
                  \cap DOMAIN g
        row(id) == CHOOSE r \in Rows(l) : r.user_id = following_id /\ r.game_id = id
    IN  [k \in DOMAIN Ascending(ids) |->
            LET id == Ascending(ids)[k]
            IN  [id |-> id, name |-> g[id].name, appid |-> g[id].appid,
                 img_logo_url |-> g[id].img_logo_url,
                 playtime_forever |-> row(id).playtime_forever]]

\* SELECT g.id, g.name, g.appid, g.img_logo_url, ugl.playtime_forever
\* FROM user_game_library ugl JOIN game g ON ugl.game_id = g.id
\* WHERE ugl.user_id = ? AND g.id NOT IN (...)
FollowedGames(g, l, following_id, user_game_ids) ==
    LET ids == ({r.game_id : r \in {x \in Rows(l) : x.user_id = following_id}}
                  \cap DOMAIN g) \ NotInList(user_game_ids)
        row(id) == CHOOSE r \in Rows(l) : r.user_id = following_id /\ r.game_id = id
    IN  [k \in DOMAIN Ascending(ids) |->
            LET id == Ascending(ids)[k]
            IN  [id |-> id, name |-> g[id].name, appid |-> g[id].appid,
                 img_logo_url |-> g[id].img_logo_url,
                 playtime_forever |-> row(id).playtime_forever]]

PlayedByFollowed == <<"P","l","a","y","e","d"," ","b","y"," ","f","o","l","l","o","w","e","d",
                      " ","u","s","e","r","s">>

\* followed_user_games: filled only when the caller has preferences
FollowedUserGames(g, l, f, u, user_tags, user_game_ids) ==
    IF user_tags = <<>> THEN <<>>
    ELSE FoldLeft(LAMBDA d, following_id :
                    FoldLeft(LAMBDA d2, gm :
                                IF KeyIndex(d2, gm.id) = 0
                                THEN Append(d2, [id |-> gm.id, game |-> gm,
                                                 recommendation_score |-> 0,
                                                 reason |-> PlayedByFollowed])
                                ELSE d2,
                             d, FollowedGames(g, l, following_id, user_game_ids)),
                  <<>>, FollowedUsers(f, u))

\* SELECT g.id, g.name, g.appid, g.img_logo_url FROM game g
\* JOIN game_tag gt ON g.id = gt.game_id WHERE gt.tag = ? AND g.id NOT IN (...)
\* (game_tag holds a (game_id, tag) once: one row per game)
TagGames(g, t, tag, user_game_ids) ==
    LET ids == ({r.game_id : r \in {x \in Rows(t) : x.tag = tag}} \cap DOMAIN g)
                  \ NotInList(user_game_ids)
    IN  [k \in DOMAIN Ascending(ids) |->
            LET id == Ascending(ids)[k]
            IN  [id |-> id, name |-> g[id].name, appid |-> g[id].appid,
                 img_logo_url |-> g[id].img_logo_url]]

\* tag_based_games: per game the summed weights and the tags that matched
TagBasedGames(g, t, user_tags, user_game_ids) ==
    FoldLeft(LAMBDA d, item :
                FoldLeft(LAMBDA d2, gm :
                            LET d3 == IF KeyIndex(d2, gm.id) = 0
                                      THEN Append(d2, [id |-> gm.id, game |-> gm,
                                                       recommendation_score |-> 0,
                                                       matching_tags |-> <<>>])
                                      ELSE d2
                                k == KeyIndex(d3, gm.id)
                            IN  [d3 EXCEPT ![k].recommendation_score = @ + item.weight,
                                           ![k].matching_tags = Append(@, item.tag)],
                         d, TagGames(g, t, item.tag, user_game_ids)),
             <<>>, user_tags)

RECURSIVE Join(_, _)
\* sep.join(parts)
Join(parts, sep) ==
    IF parts = <<>> THEN <<>>
    ELSE IF Len(parts) = 1 THEN parts[1]
    ELSE parts[1] \o sep \o Join(Tail(parts), sep)

\* lst[:n]
Slice(lst, n) == SubSeq(lst, 1, IF Len(lst) < n THEN Len(lst) ELSE n)

MatchesYourTags == <<"M","a","t","c","h","e","s"," ","y","o","u","r"," ","t","a","g","s",
                     ":"," ">>
AlsoPlayed == <<";"," ","A","l","s","o"," ","p","l","a","y","e","d"," ","b","y"," ",
                "f","o","l","l","o","w","e","d"," ","u","s","e","r","s">>
Friends == <<"f","r","i","e","n","d","s">>

\* the mutated form: a game that matched a tag gets no boost
RecommendationsBoostNewOnly(tag_based_games, followed_user_games) ==
    FoldLeft(LAMBDA recs, data :
                LET k == KeyIndex(recs, data.id)
                IN  IF k /= 0
                    THEN [recs EXCEPT ![k].reason =
                                          IF ~Contains(Lower(@), Friends)
                                          THEN @ \o AlsoPlayed ELSE @]
                    ELSE Append(recs, [id |-> data.id, game |-> data.game,
                                       score |-> FollowBonus, reason |-> data.reason]),
             [k \in DOMAIN tag_based_games |->
                 [id |-> tag_based_games[k].id,
                  game |-> tag_based_games[k].game,
                  score |-> tag_based_games[k].recommendation_score,
                  reason |-> MatchesYourTags \o
                             Join(Slice(tag_based_games[k].matching_tags, 3), <<",", " ">>)]],
             followed_user_games)

\* recommendations: the tag-based entries, then the followed users' games, which
\* boost an entry that is there and else come in with the boost as their score
Recommendations(tag_based_games, followed_user_games) ==
    FoldLeft(LAMBDA recs, data :
                LET k == KeyIndex(recs, data.id)
                IN  IF k /= 0
                    THEN [recs EXCEPT ![k].score = @ + FollowBonus,
                                      ![k].reason =
                                          IF ~Contains(Lower(@), Friends)
                                          THEN @ \o AlsoPlayed ELSE @]
                    ELSE Append(recs, [id |-> data.id, game |-> data.game,
                                       score |-> FollowBonus, reason |-> data.reason]),
             [k \in DOMAIN tag_based_games |->
                 [id |-> tag_based_games[k].id,
                  game |-> tag_based_games[k].game,
                  score |-> tag_based_games[k].recommendation_score,
                  reason |-> MatchesYourTags \o
                             Join(Slice(tag_based_games[k].matching_tags, 3), <<",", " ">>)]],
             followed_user_games)

\* the mutated form: the entries stay in the order they were collected in
SortedRecommendationsAsCollected(recs) == recs

\* sorted(recommendations.values(), key=lambda x: x['score'], reverse=True):
\* stable, entries of equal score keep their order
SortedRecommendations(recs) ==
    FoldLeft(LAMBDA acc, x :
                LET k == Cardinality({i \in DOMAIN acc : acc[i].score >= x.score})
                IN  SubSeq(acc, 1, k) \o <<x>> \o SubSeq(acc, k + 1, Len(acc)),
             <<>>, recs)

\* the mutated form: bool(recommendations)
HasPreferencesOfList(user_tags, recs) == recs /= <<>>

\* bool(user_tags)
HasPreferences(user_tags, recs) == user_tags /= <<>>

\* what index hands to the template
IndexContext(g, l, t, prefs, f, u) ==
    LET user_tags == UserTags(prefs, u)
        user_game_ids == UserGameIds(l, u)
        followed_user_games == FollowedUserGames(g, l, f, u, user_tags, user_game_ids)
        tag_based_games == IF user_tags /= <<>>
                           THEN TagBasedGames(g, t, user_tags, user_game_ids)
                           ELSE <<>>
        recommendations == Recommendations(tag_based_games, followed_user_games)
        sorted_recommendations == SortedRecommendations(recommendations)
    IN  [page |-> "recommendations/index.html", user |-> u,
         recommendations |-> Slice(sorted_recommendations, TopN),
         has_preferences |-> HasPreferences(user_tags, recommendations)]

\* GET /recommendations/
Index(u) ==
    /\ rendered' = IndexContext(game, user_game_library, game_tag, user_preferences,
                                user_follows, u)
    /\ flashed' = NoFlash
    /\ UNCHANGED <<store, now, txn, spawned, worker, threads, remote_calls, resolved, lastImport, requests>>

\* POST /recommendations/preferences
Preferences(u, selected_tags) ==
    /\ user_preferences' =
          FoldLeft(LAMBDA prefs, tag :
                      IF InPopularTags(tag)
                      THEN Append(prefs, [user_id |-> u, tag |-> tag,
                                          weight |-> PreferenceWeight])
                      ELSE prefs,
                   SelectSeq(user_preferences, LAMBDA row : row.user_id /= u),
                   selected_tags)
    /\ flashed' = [msg |-> "Preferences updated successfully!"]
    /\ rendered' = NoPage
    /\ UNCHANGED <<game, user_game_library, game_tag, user_follows, now, txn, spawned, worker, threads, remote_calls, resolved,
                   lastImport, requests>>

\* a thread beside the request has the store's write lock
StoreLocked == \E j \in DOMAIN threads : "dirty" \in DOMAIN threads[j] /\ threads[j].dirty

\* POST /recommendations/game/<game_id>/tags; with the write lock taken for longer
\* than the request waits, the DELETE raises OperationalError
ManageGameTags(game_id, selected_tags) ==
    /\ IF game_id \notin DOMAIN game
       THEN /\ flashed' = [msg |-> "Game not found."]
            /\ UNCHANGED game_tag
       ELSE IF StoreLocked
       THEN /\ flashed' = [msg |-> "Database tables not initialized."]
            /\ UNCHANGED game_tag
       ELSE /\ game_tag' =
                  FoldLeft(LAMBDA t, tag :
                              IF InPopularTags(tag) /\ ~TagIntegrityError(t, game_id, tag)
                              THEN InsertRow(t, [game_id |-> game_id, tag |-> tag])
                              ELSE t,
                           DeleteWhere(game_tag, LAMBDA r : r.game_id = game_id),
                           selected_tags)
            /\ flashed' = [msg |-> "Tags updated for", name |-> game[game_id].name]
    /\ rendered' = NoPage
    /\ UNCHANGED <<game, user_game_library, user_preferences, user_follows, now, txn,
                   spawned, worker, threads, remote_calls, resolved, lastImport, requests>>

-----------------------------------------------------------------------------
(* Social: follow and unfollow *)

\* the mutated form: the check for an existing edge finds none
ExistingFollowNever(f, follower_id, following_id) == FALSE

\* SELECT id FROM user_follows WHERE follower_id = ? AND following_id = ?  (fetchone)
ExistingFollow(f, follower_id, following_id) ==
    \E r \in Rows(f) : r.follower_id = follower_id /\ r.following_id = following_id

\* the mutated form: the row of the named user is not looked up
FollowUserAnyone(u, user_id) ==
    /\ user_follows' = InsertRow(user_follows,
                           [follower_id |-> u, following_id |-> user_id,
                            created_at |-> now])
    /\ flashed' = [msg |-> "You are now following", user |-> user_id, to |-> u]
    /\ rendered' = NoPage
    /\ UNCHANGED <<game, user_game_library, game_tag, user_preferences, now, txn,
                   spawned, worker, threads, remote_calls, resolved, lastImport, requests>>

\* POST /social/users/<user_id>/follow
FollowUser(u, user_id) ==
    /\ IF user_id \notin Users
       THEN /\ flashed' = [msg |-> "User not found."]
            /\ UNCHANGED user_follows
       ELSE IF user_id = u
       THEN /\ flashed' = [msg |-> "You cannot follow yourself.", to |-> u]
            /\ UNCHANGED user_follows
       ELSE IF ExistingFollow(user_follows, u, user_id)
       THEN /\ flashed' = [msg |-> "You are already following", user |-> user_id, to |-> u]
            /\ UNCHANGED user_follows
       ELSE /\ user_follows' = InsertRow(user_follows,
                                  [follower_id |-> u, following_id |-> user_id,
                                   created_at |-> now])
            /\ flashed' = [msg |-> "You are now following", user |-> user_id, to |-> u]
    /\ rendered' = NoPage
    /\ UNCHANGED <<game, user_game_library, game_tag, user_preferences, now, txn,
                   spawned, worker, threads, remote_calls, resolved, lastImport, requests>>

\* the mutated form: the DELETE takes the edge of the other direction along
UnfollowUserBothWays(u, user_id) ==
    /\ IF user_id \in Users
       THEN /\ user_follows' =
                  DeleteWhere(user_follows,
                              LAMBDA r : \/ (r.follower_id = u /\ r.following_id = user_id)
                                         \/ (r.follower_id = user_id /\ r.following_id = u))
            /\ flashed' = [msg |-> "You have unfollowed", user |-> user_id, to |-> u]
       ELSE /\ flashed' = NoFlash
            /\ UNCHANGED user_follows
    /\ rendered' = NoPage
    /\ UNCHANGED <<game, user_game_library, game_tag, user_preferences, now, txn,
                   spawned, worker, threads, remote_calls, resolved, lastImport, requests>>

\* POST /social/users/<user_id>/unfollow
UnfollowUser(u, user_id) ==
    /\ IF user_id \in Users
       THEN /\ user_follows' =
                  DeleteWhere(user_follows,
                              LAMBDA r : r.follower_id = u /\ r.following_id = user_id)
            /\ flashed' = [msg |-> "You have unfollowed", user |-> user_id, to |-> u]
       ELSE /\ flashed' = NoFlash
            /\ UNCHANGED user_follows
    /\ rendered' = NoPage
    /\ UNCHANGED <<game, user_game_library, game_tag, user_preferences, now, txn,
                   spawned, worker, threads, remote_calls, resolved, lastImport, requests>>

-----------------------------------------------------------------------------
(* Recommendation and social requests on a store that imports have filled *)

Bogus == <<"B","o","g","u","s">>

\* the tags a preferences form can post
PreferenceForms == { <<>>, <<Action, RPG>>, <<RPG, Bogus, RPG>> }

\* the tags a game's tag form can post
TagForms == { <<>>, <<Action>>, <<RPG, Bogus, Action, RPG>> }

\* the game table after Steam imports of n games
CatalogGames(n) ==
    FoldLeft(LAMBDA g, i : SteamUpsertGame(g, StrNat(10 * i), HL, 0, <<>>, <<>>),
             <<>>, [i \in 1..n |-> i])

\* the library table after imports that gave each owner[u] to user u
LibraryOf(owner) ==
    FoldLeft(LAMBDA l, u :
                FoldLeft(LAMBDA l2, id : SteamUpsertLibrary(l2, u, id, id, 0),
                         l, Ascending(owner[u])),
             EmptyBag, Ascending(DOMAIN owner))

RecLibraries ==
    { LibraryOf([u \in Users |-> IF u = 1 THEN {1} ELSE {1, 2}]),
      LibraryOf([u \in Users |-> IF u = 1 THEN {} ELSE {2, 3}]) }

InitRec ==
    /\ game = CatalogGames(NumRecGames)
    /\ user_game_library \in RecLibraries
    /\ game_tag = EmptyBag
    /\ user_preferences = <<>>
    /\ user_follows = EmptyBag
    /\ now = 0
    /\ txn = NoTxn
    /\ spawned = <<>>
    /\ worker = NoWorker
    /\ threads = <<>>
    /\ remote_calls = <<>>
    /\ resolved = NoResolved
    /\ flashed = NoFlash
    /\ rendered = NoPage
    /\ lastImport = NoImport
    /\ requests = 0

NextRec ==
    \/ \E u \in Users, tags \in PreferenceForms : Preferences(u, tags)
    \/ \E g \in 1..(Len(game) + 1), tags \in TagForms : ManageGameTags(g, tags)
    \/ \E u \in Users, v \in UserIds : FollowUser(u, v)
    \/ \E u \in Users, v \in UserIds : UnfollowUser(u, v)
    \/ \E u \in Users : Index(u)

SpecRec == InitRec /\ [][NextRec]_vars

\* game_tag after tagging: every game Action, every third game RPG as well
TopTags ==
    SetToBag({[game_id |-> i, tag |-> Action] : i \in 1..NumTopGames}
             \cup {[game_id |-> i, tag |-> RPG] : i \in {j \in 1..NumTopGames : j % 3 = 0}})

TopLibraries ==
    { LibraryOf([u \in Users |-> IF u = 1 THEN {1}
                                 ELSE {j \in 1..NumTopGames : j % 5 = 0}]),
      LibraryOf([u \in Users |-> IF u = 1 THEN {}
                                 ELSE {j \in 1..NumTopGames : j % 2 = 0}]) }

TopPreferenceForms == { <<Action>>, <<RPG, Action>> }

InitTop ==
    /\ game = CatalogGames(NumTopGames)
    /\ user_game_library \in TopLibraries
    /\ game_tag = TopTags
    /\ user_preferences = <<>>
    /\ user_follows = EmptyBag
    /\ now = 0
    /\ txn = NoTxn
    /\ spawned = <<>>
    /\ worker = NoWorker
    /\ threads = <<>>
    /\ remote_calls = <<>>
    /\ resolved = NoResolved
    /\ flashed = NoFlash
    /\ rendered = NoPage
    /\ lastImport = NoImport
    /\ requests = 0

NextTop ==
    \/ \E u \in Users, tags \in TopPreferenceForms : Preferences(u, tags)
    \/ \E u \in Users, v \in UserIds : FollowUser(u, v)
    \/ \E u \in Users, v \in UserIds : UnfollowUser(u, v)
    \/ \E u \in Users : Index(u)

SpecTop == InitTop /\ [][NextTop]_vars

-----------------------------------------------------------------------------
(* Claims about the recommendations page and the follow edges *)

IsIndexPage == rendered.page = "recommendations/index.html"

Owned(u) == {r.game_id : r \in {x \in Rows(user_game_library) : x.user_id = u}}
Followed(u) == {r.following_id : r \in {x \in Rows(user_follows) : x.follower_id = u}}
DeclaredTags(u) ==
    {user_preferences[i].tag : i \in {j \in DOMAIN user_preferences :
                                          user_preferences[j].user_id = u}}
DeclaredWeight(u, tag) ==
    LET i == CHOOSE i \in DOMAIN user_preferences :
                /\ user_preferences[i].user_id = u /\ user_preferences[i].tag = tag
                /\ \A j \in DOMAIN user_preferences :
                      (user_preferences[j].user_id = u /\ user_preferences[j].tag = tag)
                          => j <= i
    IN  user_preferences[i].weight
TagsOfGame(id) == {r.tag : r \in {x \in Rows(game_tag) : x.game_id = id}}
OwnedByFollowed(u, id) == \E v \in Followed(u) : id \in Owned(v)

\* the score the contract gives game id for user u
ExpectedScore(u, id) ==
    SumOver(DeclaredTags(u) \cap TagsOfGame(id),
            [tag \in DeclaredTags(u) \cap TagsOfGame(id) |-> DeclaredWeight(u, tag)])
    + (IF OwnedByFollowed(u, id) THEN 5 ELSE 0)

\* a game the contract ranks for user u: not owned, and carrying a declared tag or
\* owned by a followed user
IsCandidate(u, id) ==
    /\ id \notin Owned(u)
    /\ (DeclaredTags(u) \cap TagsOfGame(id) /= {} \/ OwnedByFollowed(u, id))

RecommendedIds == {rendered.recommendations[k].game.id : k \in DOMAIN rendered.recommendations}

\* C5: the recommendation list a user is given contains no game of that user's
\* library, whether a tag or a followed user's library made the game a candidate.
C5_NoOwnedGameRecommended ==
    IsIndexPage => RecommendedIds \cap Owned(rendered.user) = {}

\* the caller owns a game that carries a declared tag and that a followed user owns
\* too; the list holds a tag match and a followed user's game
C5_Witness ==
    /\ IsIndexPage
    /\ \E id \in Owned(rendered.user) :
          /\ DeclaredTags(rendered.user) \cap TagsOfGame(id) /= {}
          /\ OwnedByFollowed(rendered.user, id)
    /\ \E id \in RecommendedIds : DeclaredTags(rendered.user) \cap TagsOfGame(id) /= {}
    /\ \E id \in RecommendedIds :
          /\ DeclaredTags(rendered.user) \cap TagsOfGame(id) = {}
          /\ OwnedByFollowed(rendered.user, id)

\* C6: the score of every recommended game is the sum of the caller's weights over
\* the declared tags the game carries, plus 5 if a followed user owns the game.
C6_ScoreIsWeightsPlusBonus ==
    IsIndexPage =>
        \A k \in DOMAIN rendered.recommendations :
            rendered.recommendations[k].score =
                ExpectedScore(rendered.user, rendered.recommendations[k].game.id)

\* preferences {Action, RPG}, a game tagged {Action} owned by a followed user: score 6
C6_Witness ==
    /\ IsIndexPage
    /\ DeclaredTags(rendered.user) = {Action, RPG}
    /\ \E k \in DOMAIN rendered.recommendations :
          /\ TagsOfGame(rendered.recommendations[k].game.id) = {Action}
          /\ OwnedByFollowed(rendered.user, rendered.recommendations[k].game.id)
          /\ rendered.recommendations[k].score = 6

\* C7: a game that a followed user owns and the caller does not is in the caller's
\* list with the +5 bonus in its score, also when the caller declared no tags.
C7_FollowBonusWithoutPreferences ==
    IsIndexPage =>
        \A id \in DOMAIN game :
            (OwnedByFollowed(rendered.user, id) /\ id \notin Owned(rendered.user)) =>
                \E k \in DOMAIN rendered.recommendations :
                    /\ rendered.recommendations[k].game.id = id
                    /\ rendered.recommendations[k].score = ExpectedScore(rendered.user, id)

Candidates(u) == {id \in DOMAIN game : IsCandidate(u, id)}

\* C8: the list is ordered by score, highest first, and has at most 50 entries; a
\* candidate that is left out has no higher score than any entry of the list.
C8_TopFiftyByScore ==
    IsIndexPage =>
        /\ Len(rendered.recommendations) <= 50
        /\ \A j, k \in DOMAIN rendered.recommendations :
              j < k => rendered.recommendations[j].score >= rendered.recommendations[k].score
        /\ \A id \in Candidates(rendered.user) \ RecommendedIds :
              \A k \in DOMAIN rendered.recommendations :
                  ExpectedScore(rendered.user, id) <= rendered.recommendations[k].score

\* more than 50 candidates of unequal scores: the list is full and leaves some out
C8_Witness ==
    /\ IsIndexPage
    /\ Cardinality(Candidates(rendered.user)) > 50
    /\ Len(rendered.recommendations) = 50
    /\ rendered.recommendations[1].score > rendered.recommendations[50].score
    /\ \E id \in Candidates(rendered.user) \ RecommendedIds :
          ExpectedScore(rendered.user, id) = rendered.recommendations[50].score

\* C9: has_preferences is true exactly when the caller has declared a preference;
\* a caller with no preference who follows no one gets an empty list and the flag
\* false.
C9_HasPreferencesFlag ==
    IsIndexPage =>
        /\ rendered.has_preferences <=> (DeclaredTags(rendered.user) /= {})
        /\ (DeclaredTags(rendered.user) = {} /\ Followed(rendered.user) = {}) =>
              (rendered.recommendations = <<>> /\ ~rendered.has_preferences)

\* a caller with no preference and no followed user is shown nothing, although a
\* game the caller does not own carries a tag
C9_Witness ==
    /\ IsIndexPage
    /\ DeclaredTags(rendered.user) = {}
    /\ Followed(rendered.user) = {}
    /\ rendered.recommendations = <<>>
    /\ ~rendered.has_preferences
    /\ \E id \in DOMAIN game : id \notin Owned(rendered.user) /\ TagsOfGame(id) /= {}

FollowEdges(follower_id, following_id) ==
    {r \in Rows(user_follows) :
        r.follower_id = follower_id /\ r.following_id = following_id}

\* C10: no follow edge leads from a user to that same user, and there is at most one edge
\* per ordered pair of users; a request to follow oneself and a request to follow
\* a user already followed leave the edges as they are, the latter answering
\* "already following".
C10_FollowEdges ==
    [][ /\ \A r \in Rows(user_follows') :
              /\ r.follower_id /= r.following_id
              /\ CopiesIn(r, user_follows') = 1
              /\ \A q \in Rows(user_follows') :
                    (q.follower_id = r.follower_id /\ q.following_id = r.following_id)
                        => q = r
        /\ flashed'.msg = "You cannot follow yourself." => user_follows' = user_follows
        /\ flashed'.msg = "You are already following" =>
              /\ user_follows' = user_follows
              /\ Cardinality(FollowEdges(flashed'.to, flashed'.user)) = 1
        /\ flashed'.msg = "You are now following" =>
              /\ FollowEdges(flashed'.to, flashed'.user) = {}
              /\ BagCardinality(user_follows') = BagCardinality(user_follows) + 1
      ]_vars

\* two users follow each other, and one of them has asked to follow the other again
C10_Witness ==
    /\ flashed.msg = "You are already following"
    /\ BagCardinality(user_follows) = 2
    /\ \A u \in Users : \E v \in Users : FollowEdges(u, v) /= {}

-----------------------------------------------------------------------------
(* Claims about unfollowing and the direction of follow edges *)

\* the rows of f that are not the edge from follower_id to following_id
OtherEdges(f, follower_id, following_id) ==
    [r \in {x \in Rows(f) : ~(x.follower_id = follower_id /\ x.following_id = following_id)}
        |-> f[r]]

\* C11: a request to unfollow a user the caller does not follow leaves the follow
\* edges as they are, and tells the caller nothing.
C11_UnfollowNotFollowedIsSilent ==
    [][ \A u \in Users, v \in UserIds :
            (UnfollowUser(u, v) /\ FollowEdges(u, v) = {}) =>
                (user_follows' = user_follows /\ flashed' = NoFlash)
      ]_vars

\* C12: follow(u, v) adds at most the edge (u, v), unfollow(u, v) removes at most
\* the edge (u, v); every other edge, (v, u) among them, stays as it is.
C12_EdgesDirected ==
    [][ \A u \in Users, v \in UserIds :
            (FollowUser(u, v) \/ UnfollowUser(u, v)) =>
                /\ OtherEdges(user_follows', u, v) = OtherEdges(user_follows, u, v)
                /\ FollowUser(u, v) =>
                      \A r \in Rows(user_follows) : r \in Rows(user_follows')
                /\ UnfollowUser(u, v) =>
                      \A r \in Rows(user_follows') : r \in Rows(user_follows)
      ]_vars

\* two users followed each other and one has unfollowed: the edge back is still there
C12_Witness ==
    /\ flashed.msg = "You have unfollowed"
    /\ FollowEdges(flashed.to, flashed.user) = {}
    /\ FollowEdges(flashed.user, flashed.to) /= {}

-----------------------------------------------------------------------------
(* The sorted views: steam.library and social.common_games.  A request      *)
(* parameter is a text, or None when the query string does not have it.     *)

\* the characters of the model's texts in code point order
CodePoints == <<" ", "-", ".", "0", "1", "2", "3", "4", "5", "6", "7", "8", "9", ":", ";",
                "A", "B", "C", "D", "E", "F", "G", "H", "I", "J", "K", "L", "M",
                "N", "O", "P", "Q", "R", "S", "T", "U", "V", "W", "X", "Y", "Z", "_",
                "a", "b", "c", "d", "e", "f", "g", "h", "i", "j", "k", "l", "m",
                "n", "o", "p", "q", "r", "s", "t", "u", "v", "w", "x", "y", "z", "|">>

CodePoint(c) == CHOOSE i \in DOMAIN CodePoints : CodePoints[i] = c

RECURSIVE TextLess(_, _)
\* a < b of two texts
TextLess(a, b) ==
    IF b = <<>> THEN FALSE
    ELSE IF a = <<>> THEN TRUE
    ELSE IF Head(a) = Head(b) THEN TextLess(Tail(a), Tail(b))
    ELSE CodePoint(Head(a)) < CodePoint(Head(b))

UpperChar(c) ==
    IF \E i \in DOMAIN LowerLetters : LowerLetters[i] = c
    THEN UpperLetters[CHOOSE i \in DOMAIN LowerLetters : LowerLetters[i] = c]
    ELSE c

\* str.upper()
Upper(s) == [i \in DOMAIN s |-> UpperChar(s[i])]

\* request.args.get(key, default)
ArgsGet(arg, default) == IF arg = None THEN default ELSE arg

SortName == <<"n","a","m","e">>
SortPlaytime == <<"p","l","a","y","t","i","m","e">>
SortImported == <<"i","m","p","o","r","t","e","d">>
SortMyPlaytime == <<"m","y","_","p","l","a","y","t","i","m","e">>
SortTheirPlaytime == <<"t","h","e","i","r","_","p","l","a","y","t","i","m","e">>
SortRelevance == <<"r","e","l","e","v","a","n","c","e">>
Asc == <<"a","s","c">>
Desc == <<"d","e","s","c">>

\* valid_sorts of steam.library
LibraryValidSorts ==
    << [key |-> SortName, column |-> <<"g",".","n","a","m","e">>],
       [key |-> SortPlaytime, column |-> <<"u","g","l",".","p","l","a","y","t","i","m","e","_","f","o","r","e","v","e","r">>],
       [key |-> SortImported, column |-> <<"u","g","l",".","i","m","p","o","r","t","e","d","_","a","t">>] >>

\* valid_sorts of social.common_games
CommonValidSorts ==
    << [key |-> SortName, column |-> SortName],
       [key |-> SortPlaytime, column |-> SortPlaytime],
       [key |-> SortMyPlaytime, column |-> SortMyPlaytime],
       [key |-> SortTheirPlaytime, column |-> SortTheirPlaytime],
       [key |-> SortRelevance, column |-> SortRelevance] >>

valid_orders == <<Asc, Desc>>

\* key in valid_sorts
InValidSorts(valid_sorts, key) == \E i \in DOMAIN valid_sorts : valid_sorts[i].key = key

\* valid_sorts[key]
ColumnOf(valid_sorts, key) ==
    valid_sorts[CHOOSE i \in DOMAIN valid_sorts : valid_sorts[i].key = key].column

\* if sort_by not in valid_sorts: sort_by = 'name'
ValidatedSort(valid_sorts, sort_by) ==
    IF InValidSorts(valid_sorts, sort_by) THEN sort_by ELSE SortName

\* if sort_order not in valid_orders: sort_order = 'asc'
ValidatedOrder(sort_order) ==
    IF \E i \in DOMAIN valid_orders : valid_orders[i] = sort_order THEN sort_order ELSE Asc

RECURSIVE IsqrtBetween(_, _, _)
\* the largest r in lo..hi with r * r <= n
IsqrtBetween(lo, hi, n) ==
    IF lo = hi THEN lo
    ELSE LET mid == (lo + hi + 1) \div 2
         IN  IF mid * mid <= n THEN IsqrtBetween(mid, hi, n) ELSE IsqrtBetween(lo, mid - 1, n)

\* math.sqrt(n), in thousandths
SqrtMilli(n) == IsqrtBetween(0, 1000 * n, n * 1000000)

\* math.log(k), in thousandths, for k in 1..32
LogMilli ==
    <<0, 693, 1099, 1386, 1609, 1792, 1946, 2079, 2197, 2303, 2398, 2485, 2565, 2639,
      2708, 2773, 2833, 2890, 2944, 2996, 3045, 3091, 3135, 3178, 3219, 3258, 3296,
      3332, 3367, 3401, 3434, 3466>>

\* the mutated form: the mean of the two playtimes, whatever they are
RelevanceOfMean(my_playtime, their_playtime, total_playtime) ==
    (((my_playtime + their_playtime) * 500) * LogMilli[total_playtime + 1]) \div 1000

\* relevance = sqrt(my_playtime * their_playtime) * log(total_playtime + 1) when both
\* playtimes are positive, else 0; in thousandths
Relevance(my_playtime, their_playtime, total_playtime) ==
    IF my_playtime > 0 /\ their_playtime > 0
    THEN (SqrtMilli(my_playtime * their_playtime) * LogMilli[total_playtime + 1]) \div 1000
    ELSE 0

\* list.sort(key=..., reverse=...) and ORDER BY: stable; KeyLess(a, b) is key(a) < key(b)
SortedBy(lst, KeyLess(_, _), reverse) ==
    FoldLeft(LAMBDA acc, x :
                LET k == Cardinality({i \in DOMAIN acc :
                                         IF reverse THEN ~KeyLess(acc[i], x)
                                         ELSE ~KeyLess(x, acc[i])})
                IN  SubSeq(acc, 1, k) \o <<x>> \o SubSeq(acc, k + 1, Len(acc)),
             <<>>, lst)

\* SELECT ... FROM game g INNER JOIN user_game_library my_lib ... INNER JOIN
\* user_game_library their_lib ..., each row with its relevance
CommonGamesRaw(g, l, u, user_id) ==
    LET ids == UserGameIds(l, u) \cap UserGameIds(l, user_id) \cap DOMAIN g
        mine(id) == CHOOSE r \in Rows(l) : r.user_id = u /\ r.game_id = id
        theirs(id) == CHOOSE r \in Rows(l) : r.user_id = user_id /\ r.game_id = id
    IN  [k \in DOMAIN Ascending(ids) |->
            LET id == Ascending(ids)[k]
                my_playtime == mine(id).playtime_forever
                their_playtime == theirs(id).playtime_forever
            IN  [id |-> id, appid |-> g[id].appid, name |-> g[id].name,
                 img_logo_url |-> g[id].img_logo_url,
                 my_playtime |-> my_playtime, their_playtime |-> their_playtime,
                 total_playtime |-> my_playtime + their_playtime,
                 relevance |-> Relevance(my_playtime, their_playtime,
                                         my_playtime + their_playtime)]]

\* common_games.sort(...) by the selected column
CommonGamesSorted(lst, sort_by, sort_order) ==
    LET reverse == sort_order = Desc
    IN  IF sort_by = SortRelevance
        THEN SortedBy(lst, LAMBDA a, b : a.relevance < b.relevance, reverse)
        ELSE IF sort_by = SortName
        THEN SortedBy(lst, LAMBDA a, b : TextLess(Lower(a.name), Lower(b.name)), reverse)
        ELSE IF sort_by = SortPlaytime
        THEN SortedBy(lst, LAMBDA a, b : a.total_playtime < b.total_playtime, reverse)
        ELSE IF sort_by = SortMyPlaytime
        THEN SortedBy(lst, LAMBDA a, b : a.my_playtime < b.my_playtime, reverse)
        ELSE IF sort_by = SortTheirPlaytime
        THEN SortedBy(lst, LAMBDA a, b : a.their_playtime < b.their_playtime, reverse)
        ELSE lst

\* GET /social/common-games/<user_id>?sort=&order=
CommonGames(u, user_id, sort_arg, order_arg) ==
    /\ IF user_id \notin Users
       THEN /\ flashed' = [msg |-> "User not found."]
            /\ rendered' = NoPage
       ELSE LET sort_by == ValidatedSort(CommonValidSorts, ArgsGet(sort_arg, SortRelevance))
                sort_order == ValidatedOrder(ArgsGet(order_arg, Desc))
            IN  /\ flashed' = NoFlash
                /\ rendered' =
                      [page |-> "social/common_games.html", user |-> u,
                       other_user |-> user_id,
                       common_games |->
                           CommonGamesSorted(
                               CommonGamesRaw(game, user_game_library, u, user_id),
                               sort_by, sort_order),
                       is_following |-> ExistingFollow(user_follows, u, user_id),
                       sort_by |-> sort_by, sort_order |-> sort_order,
                       order_column |-> ColumnOf(CommonValidSorts, sort_by),
                       order_direction |-> Upper(sort_order),
                       sort_arg |-> sort_arg, order_arg |-> order_arg]
    /\ UNCHANGED <<store, now, txn, spawned, worker, threads, remote_calls, resolved, lastImport, requests>>

\* SELECT ... FROM user_game_library ugl JOIN game g ON ugl.game_id = g.id
\* WHERE ugl.user_id = ?
LibraryRows(g, l, u) ==
    LET ids == UserGameIds(l, u) \cap DOMAIN g
        mine(id) == CHOOSE r \in Rows(l) : r.user_id = u /\ r.game_id = id
    IN  [k \in DOMAIN Ascending(ids) |->
            LET id == Ascending(ids)[k]
            IN  [id |-> id, appid |-> g[id].appid, name |-> g[id].name,
                 platform |-> g[id].platform, playtime_forever |-> g[id].playtime_forever,
                 img_icon_url |-> g[id].img_icon_url, img_logo_url |-> g[id].img_logo_url,
                 imported_at |-> mine(id).imported_at,
                 user_playtime |-> mine(id).playtime_forever]]

\* ORDER BY {order_column} {order_direction}
LibraryOrderedBy(rows, order_column, order_direction) ==
    LET reverse == order_direction = <<"D","E","S","C">>
    IN  IF order_column = <<"g",".","n","a","m","e">>
        THEN SortedBy(rows, LAMBDA a, b : TextLess(a.name, b.name), reverse)
        ELSE IF order_column = <<"u","g","l",".","p","l","a","y","t","i","m","e","_","f","o","r","e","v","e","r">>
        THEN SortedBy(rows, LAMBDA a, b : a.user_playtime < b.user_playtime, reverse)
        ELSE SortedBy(rows, LAMBDA a, b : a.imported_at < b.imported_at, reverse)

\* GET /library?sort=&order=&highlight=  (highlight 0: the parameter is not there)
Library(u, sort_arg, order_arg, highlight) ==
    LET sort_by == ValidatedSort(LibraryValidSorts, ArgsGet(sort_arg, SortName))
        sort_order == ValidatedOrder(ArgsGet(order_arg, Asc))
        order_column == ColumnOf(LibraryValidSorts, sort_by)
        order_direction == Upper(sort_order)
    IN  /\ rendered' =
              [page |-> "steam/library.html", user |-> u,
               games |-> LibraryOrderedBy(LibraryRows(game, user_game_library, u),
                                          order_column, order_direction),
               sort_by |-> sort_by, sort_order |-> sort_order,
               highlight_id |-> highlight,
               order_clause |-> order_column \o <<" ">> \o order_direction,
               sort_arg |-> sort_arg, order_arg |-> order_arg]
        /\ flashed' = NoFlash
        /\ UNCHANGED <<store, now, txn, spawned, worker, threads, remote_calls, resolved, lastImport, requests>>

-----------------------------------------------------------------------------
(* The views on a store that imports have filled *)

\* what the sort parameter of a request can be
SortArgs ==
    { None, SortName, SortPlaytime, SortImported, SortMyPlaytime, SortTheirPlaytime,
      SortRelevance, <<"n","a","m","e",";"," ","D","R","O","P">> }

\* what the order parameter of a request can be
OrderArgs == { None, Asc, Desc, <<"A","S","C">> }

\* the game table after a Steam import of three games
ViewGames ==
    FoldLeft(LAMBDA g, e : SteamUpsertGame(g, e.appid, e.name, 0, <<>>, <<>>),
             <<>>,
             << [appid |-> Ten, name |-> <<"B">>],
                [appid |-> <<"2","0">>, name |-> <<"a">>],
                [appid |-> <<"3","0">>, name |-> <<"c">>] >>)

\* the library table after imports of (user, game, playtime) at a time
LibraryOfEntries(entries) ==
    FoldLeft(LAMBDA l, e : SteamUpsertLibrary(l, e[1], e[2], e[3], e[4]),
             EmptyBag, entries)

ViewLibraries ==
    { LibraryOfEntries(<< <<1, 1, 0, 0>>, <<1, 2, 4, 1>>, <<1, 3, 2, 0>>,
                          <<2, 1, 5, 0>>, <<2, 2, 1, 0>>, <<2, 3, 0, 1>> >>),
      LibraryOfEntries(<< <<1, 1, 3, 1>>, <<1, 2, 3, 0>>,
                          <<2, 2, 3, 0>>, <<2, 3, 9, 1>> >>) }

InitViews ==
    /\ game = ViewGames
    /\ user_game_library \in ViewLibraries
    /\ game_tag = EmptyBag
    /\ user_preferences = <<>>
    /\ user_follows = EmptyBag
    /\ now = 1
    /\ txn = NoTxn
    /\ spawned = <<>>
    /\ worker = NoWorker
    /\ threads = <<>>
    /\ remote_calls = <<>>
    /\ resolved = NoResolved
    /\ flashed = NoFlash
    /\ rendered = NoPage
    /\ lastImport = NoImport
    /\ requests = 0

NextViews ==
    \/ \E u \in Users, v \in UserIds, s \in SortArgs, o \in OrderArgs :
            CommonGames(u, v, s, o)
    \/ \E u \in Users, s \in SortArgs, o \in OrderArgs, h \in {0, 1} : Library(u, s, o, h)

SpecViews == InitViews /\ [][NextViews]_vars

-----------------------------------------------------------------------------
(* Claims about the common-games relevance and the sort parameters *)

IsCommonGamesPage == rendered.page = "social/common_games.html"
IsLibraryPage == rendered.page = "steam/library.html"

PlaytimeOf(u, id) ==
    (CHOOSE r \in Rows(user_game_library) : r.user_id = u /\ r.game_id = id).playtime_forever

\* C13: the page lists the games both users have; the relevance of a game is 0 when
\* either user's playtime for it is 0 and greater than 0 when both are positive.
C13_RelevanceZeroIffOneSided ==
    IsCommonGamesPage =>
        /\ {rendered.common_games[k].id : k \in DOMAIN rendered.common_games}
              = Owned(rendered.user) \cap Owned(rendered.other_user)
        /\ \A k \in DOMAIN rendered.common_games :
              LET e == rendered.common_games[k]
                  mine == PlaytimeOf(rendered.user, e.id)
                  theirs == PlaytimeOf(rendered.other_user, e.id)
              IN  /\ (mine = 0 \/ theirs = 0) => e.relevance = 0
                  /\ (mine > 0 /\ theirs > 0) => e.relevance > 0

\* two users share a game only one of them has played and a game both have played
C13_Witness ==
    /\ IsCommonGamesPage
    /\ rendered.user /= rendered.other_user
    /\ \E k \in DOMAIN rendered.common_games :
          /\ PlaytimeOf(rendered.user, rendered.common_games[k].id) = 0
          /\ PlaytimeOf(rendered.other_user, rendered.common_games[k].id) > 0
          /\ rendered.common_games[k].relevance = 0
    /\ \E k \in DOMAIN rendered.common_games :
          /\ PlaytimeOf(rendered.user, rendered.common_games[k].id) > 0
          /\ PlaytimeOf(rendered.other_user, rendered.common_games[k].id) > 0
          /\ rendered.common_games[k].relevance > 0

\* the sort key and direction a view uses when the request has neither parameter
DefaultSort == IF IsLibraryPage THEN SortName ELSE SortRelevance
DefaultOrder == IF IsLibraryPage THEN Asc ELSE Desc
Whitelist == IF IsLibraryPage THEN LibraryValidSorts ELSE CommonValidSorts

\* C14: in the library view and in the common-games view the effective sort key is
\* a whitelisted key and the direction is asc or desc; a parameter that is not
\* whitelisted gives what the view uses when the parameter is left out.
C14_SortFallsBackToDefault ==
    (IsLibraryPage \/ IsCommonGamesPage) =>
        /\ InValidSorts(Whitelist, rendered.sort_by)
        /\ rendered.sort_order \in {Asc, Desc}
        /\ IsLibraryPage =>
              \E i \in DOMAIN LibraryValidSorts, d \in {<<"A","S","C">>, <<"D","E","S","C">>} :
                  rendered.order_clause = LibraryValidSorts[i].column \o <<" ">> \o d
        /\ (rendered.sort_arg /= None /\ ~InValidSorts(Whitelist, rendered.sort_arg)) =>
              rendered.sort_by = DefaultSort
        /\ (rendered.order_arg /= None /\ rendered.order_arg \notin {Asc, Desc}) =>
              rendered.sort_order = DefaultOrder
        /\ rendered.sort_arg = None => rendered.sort_by = DefaultSort
        /\ rendered.order_arg = None => rendered.sort_order = DefaultOrder


-----------------------------------------------------------------------------
(* Imports that cannot succeed: manifests without a recognisable entry, missing *)
(* credentials, unknown identities, refused or failing remote calls, empty     *)
(* libraries.  One import of each platform succeeds, so that the store has     *)
(* rows a failing import could touch.                                          *)

JsonNumber == [t |-> "other", truthy |-> TRUE]

\* pasted texts and JSON documents in which parse_epic_manifest finds no game
UnrecognisedManifests ==
    { [t |-> "text", text |-> <<"h","e","l","l","o","\n","#"," ","\"","n","a","m","e","\"",":"," ","\"","x","\"">>],
      [t |-> "text", text |-> <<" ","\"","i","d","\""," ",":"," ","\"","5","\"">>],
      JsonNumber,
      [t |-> "dict", pairs |-> << [k |-> "games", v |-> JsonNumber] >>],
      [t |-> "dict", pairs |-> << [k |-> "games",
                                   v |-> [t |-> "dict",
                                          pairs |-> << [k |-> "name", v |-> JsonNumber] >>]] >>],
      [t |-> "list", items |-> << [t |-> "dict", d |-> [id |-> Ten]], JsonNumber >>],
      [t |-> "dict", pairs |-> << [k |-> "x",
                                   v |-> [t |-> "list",
                                          items |-> << [t |-> "dict",
                                                        d |-> [OfferId |-> Ten]] >>]],
                                  [k |-> "y", v |-> JsonNull] >>] }

\* pasted texts and JSON documents with a game in them
RecognisedManifests ==
    { [t |-> "text", text |-> <<"#"," ","l","i","s","t","\n"," "," ","\"","A","p","p","N","a","m","e","\""," ",":","\"","H"," ","L","\"",",">>],
      [t |-> "list", items |-> << [t |-> "dict", d |-> [id |-> Ten]],
                                  [t |-> "dict", d |-> [AppName |-> HL, AppId |-> Ten]] >>] }

BlankManifests == { EmptyText, [t |-> "text", text |-> <<" ", "\n">>] }

WrongLengthId == <<"7","6","5">>
OneGame == << [appid |-> 10, name |-> HL, playtime_forever |-> 7,
               img_icon_url |-> <<"i">>, img_logo_url |-> <<"l">>] >>
ProfileUrlOfId64 == <<"h","t","t","p","s",":","/","/">> \o ProfilesUrl \o Id64 \o <<"/">>

\* Steam imports that fail, by what is missing or what the remote services answer
FailingSteamRequests ==
    { [input |-> i, api_key |-> k, vanity |-> VanityOk,
       library |-> SteamOk(OneGame), fetch_tags |-> TRUE] :
         i \in {Gabe, Id64}, k \in {None, <<>>} }
    \cup
    { [input |-> Gabe, api_key |-> SteamKey, vanity |-> v,
       library |-> SteamOk(OneGame), fetch_tags |-> TRUE] :
         v \in { [t |-> "json", success |-> 42, steamid |-> None],
                 [t |-> "json", success |-> 1, steamid |-> None],
                 [t |-> "RequestException"] } }
    \cup
    { [input |-> WrongLengthId, api_key |-> SteamKey, vanity |-> VanityOk,
       library |-> SteamOk(OneGame), fetch_tags |-> TRUE] }
    \cup
    { [input |-> ProfileUrlOfId64, api_key |-> SteamKey, vanity |-> VanityOk,
       library |-> l, fetch_tags |-> TRUE] :
         l \in { [t |-> "HTTPError", status_code |-> 403],
                 [t |-> "HTTPError", status_code |-> 503],
                 [t |-> "RequestException"],
                 [t |-> "error"],
                 [t |-> "game_count_0"],
                 [t |-> "no_response"],
                 SteamOk(<<>>) } }

SteamFailureMessages ==
    { "Steam API key is not configured.", "Vanity URL not found.",
      "Invalid Steam ID or vanity URL.", "Error connecting to Steam API",
      "Invalid Steam ID format. Steam ID64 should be 17 digits.",
      "Access denied. Your Steam profile may be private.",
      "HTTP error fetching Steam library", "Steam API error",
      "No games found in your Steam library." }

EpicItems == << [type |-> Entitlement, id |-> <<"e","1">>,
                  offer |-> [id |-> Ten, title |-> HL]] >>

\* Epic imports through the API that fail
FailingEpicRequests ==
    { [use_api |-> TRUE, account_id |-> <<"a","c","c">>, manual_games |-> <<>>,
       credentials |-> c, token |-> EpicToken,
       library |-> [t |-> "items", items |-> EpicItems]] :
         c \in { [client_id |-> None, client_secret |-> <<"s">>],
                 [client_id |-> <<"c">>, client_secret |-> <<>>] } }
    \cup
    { [use_api |-> TRUE, account_id |-> <<"a","c","c">>, manual_games |-> <<>>,
       credentials |-> EpicCredentials, token |-> k,
       library |-> [t |-> "items", items |-> EpicItems]] :
         k \in { [t |-> "RequestException"], [t |-> "json", access_token |-> None] } }
    \cup
    { [use_api |-> TRUE, account_id |-> <<"a","c","c">>, manual_games |-> <<>>,
       credentials |-> EpicCredentials, token |-> EpicToken, library |-> l] :
         l \in { [t |-> "HTTPError", status_code |-> 401],
                 [t |-> "HTTPError", status_code |-> 403],
                 [t |-> "HTTPError", status_code |-> 503],
                 [t |-> "RequestException"],
                 [t |-> "items", items |-> <<>>],
                 [t |-> "items", items |-> << [type |-> <<"O","T","H","E","R">>,
                                               id |-> <<"e","2">>] >>] } }

EpicFailureMessages ==
    { "Epic Games API credentials not configured.", "No access token available.",
      "Error getting Epic Games access token", "Authentication failed.",
      "Access denied. You may need partner access.",
      "HTTP error fetching Epic Games library", "Error connecting to Epic Games API",
      "No games found in your Epic Games library." }

NextFail ==
    \/ \E u \in Users, r \in SteamRequests \cup FailingSteamRequests :
            SteamImportBegin(u, r.input, r.api_key, r.vanity, r.library, r.fetch_tags)
    \/ \E u \in Users, r \in FailingEpicRequests :
            EpicImportBegin(u, r.use_api, r.account_id, r.manual_games, r.credentials,
                            r.token, r.library)
    \/ \E u \in Users,
          m \in UnrecognisedManifests \cup RecognisedManifests \cup BlankManifests :
            ImportManifestBegin(u, m)
    \/ \E d \in EpicDetails : ImportStep(d)
    \/ ImportCommit

\* an empty store that admits one more import
InitFail ==
    /\ game = <<>>
    /\ user_game_library = EmptyBag
    /\ game_tag = EmptyBag
    /\ user_preferences = <<>>
    /\ user_follows = EmptyBag
    /\ now = 0
    /\ txn = NoTxn
    /\ spawned = <<>>
    /\ worker = NoWorker
    /\ threads = <<>>
    /\ remote_calls = <<>>
    /\ resolved = NoResolved
    /\ flashed = NoFlash
    /\ rendered = NoPage
    /\ lastImport = NoImport
    /\ requests = MaxRequests - 1

SpecFail == InitFail /\ [][NextFail]_vars

\* C15: a manifest without a recognisable game entry (text that is not JSON, JSON
\* of an unexpected shape, entries without a name) parses to the empty result, and
\* the manifest import given it flashes the parse error, starts no import and
\* leaves every table as it was.
C15_UnrecognisedManifestIsAnError ==
    [][ \A u \in Users, m \in UnrecognisedManifests :
            ImportManifestBegin(u, m) =>
                /\ ParseEpicManifest(m) = <<>>
                /\ flashed' = [msg |-> "Could not parse Epic Games library data."]
                /\ txn' = NoTxn
                /\ game' = game
                /\ user_game_library' = user_game_library
                /\ game_tag' = game_tag ]_vars

\* the parse error was flashed over a store that holds an imported library
C15_Witness ==
    /\ flashed = [msg |-> "Could not parse Epic Games library data."]
    /\ game /= <<>>
    /\ user_game_library /= EmptyBag
    /\ Idle

-----------------------------------------------------------------------------
(* Entries of a batch *)

\* the entry the import is about to process has no external id or no name
LacksRequiredField(t) ==
    LET e == t.games[t.i]
    IN  CASE t.kind = "steam" -> "appid" \notin DOMAIN e \/ "name" \notin DOMAIN e
          [] t.kind = "epic_api" -> ~Truthy(Get(e, "offer_id")) \/ ~Truthy(Get(e, "name"))
          [] t.kind = "epic_manifest" -> ~Truthy(Get(e, "name"))
          [] OTHER -> EpicEntry(t).skip

\* C16: an entry that lacks its external id or its name is skipped, the import
\* writes no game row and no library row for it and goes on to the next entry.
C16_IncompleteEntrySkipped ==
    [][ (IsImportStep /\ LacksRequiredField(txn)) =>
            /\ txn'.game = txn.game
            /\ txn'.ugl = txn.ugl
            /\ txn'.i = txn.i + 1 ]_vars

-----------------------------------------------------------------------------
(* Imports that fail *)

CredentialsMissingMessages ==
    { "Steam API key is not configured.", "Epic Games API credentials not configured." }

\* C17: an import that fails (credentials missing, identity not found, access
\* denied, remote service unavailable, empty library) ends with its error message
\* flashed, starts no import transaction, leaves game and user_game_library as they
\* were and starts no tag thread; with credentials missing it makes no remote call.
C17_FailedImportIsReported ==
    [][ /\ \A u \in Users, r \in FailingSteamRequests :
              SteamImportBegin(u, r.input, r.api_key, r.vanity, r.library, r.fetch_tags) =>
                  /\ flashed'.msg \in SteamFailureMessages
                  /\ txn' = NoTxn
                  /\ game' = game /\ user_game_library' = user_game_library
                  /\ spawned' = spawned /\ worker' = worker
                  /\ ~Truthy(r.api_key) =>
                        (flashed'.msg \in CredentialsMissingMessages /\ remote_calls' = <<>>)
        /\ \A u \in Users, r \in FailingEpicRequests :
              EpicImportBegin(u, r.use_api, r.account_id, r.manual_games, r.credentials,
                              r.token, r.library) =>
                  /\ flashed'.msg \in EpicFailureMessages
                  /\ txn' = NoTxn
                  /\ game' = game /\ user_game_library' = user_game_library
                  /\ spawned' = spawned /\ worker' = worker
                  /\ (~Truthy(r.credentials.client_id) \/ ~Truthy(r.credentials.client_secret)) =>
                        (flashed'.msg \in CredentialsMissingMessages /\ remote_calls' = <<>>)
      ]_vars

\* a Steam import without the key failed over a store that holds an imported
\* library whose tag thread was started: nothing was asked of the remote services
C17_Witness ==
    /\ flashed.msg = "Steam API key is not configured."
    /\ remote_calls = <<>>
    /\ Idle
    /\ game /= <<>>
    /\ user_game_library /= EmptyBag
    /\ spawned /= <<>>
    /\ worker.state = "running"

-----------------------------------------------------------------------------
(* Steam identities: the shapes a Steam id or a vanity name is entered in *)

Https == <<"h","t","t","p","s",":","/","/">>
LongId == Id64 \o <<"1">>
RawIds == { Id64, WrongLengthId, LongId }
VanityNames == { Gabe, <<"g","1">> }

\* the field as typed, what import_library strips it to, the id or name in it
Typed(input, bare) == [input |-> input, stripped |-> Strip(input), bare |-> bare]

IdentityInputs ==
    UNION { { Typed(x, x),
              Typed(<<" ">> \o x \o <<" ">>, x),
              Typed(Https \o ProfilesUrl \o x, x),
              Typed(Https \o ProfilesUrl \o x \o <<"/">>, x),
              Typed(ProfilesUrl \o x \o <<"/","g","a","m","e","s">>, x) } :
            x \in RawIds }
    \cup
    UNION { { Typed(x, x),
              Typed(Https \o IdUrl \o x, x),
              Typed(<<" ">> \o Https \o IdUrl \o x \o <<"/">>, x),
              Typed(IdUrl \o x \o <<"/","g","a","m","e","s">>, x) } :
            x \in VanityNames \cup {WrongLengthId} }

VanityAnswers ==
    { VanityOk, [t |-> "json", success |-> 42, steamid |-> None], [t |-> "RequestException"] }

ResolveRequests ==
    { [input |-> i.input, stripped |-> i.stripped, bare |-> i.bare, api_key |-> SteamKey,
       vanity |-> v, library |-> l, fetch_tags |-> TRUE] :
         i \in IdentityInputs, v \in VanityAnswers,
         l \in { SteamOk(OneGame), [t |-> "game_count_0"] } }

NextResolve ==
    \/ \E u \in Users, r \in ResolveRequests :
            SteamImportBegin(u, r.input, r.api_key, r.vanity, r.library, r.fetch_tags)
    \/ \E d \in EpicDetails : ImportStep(d)
    \/ ImportCommit

SpecResolve == InitFail /\ [][NextResolve]_vars

VanityLookups(calls) == SelectSeq(calls, LAMBDA c : c.api = "ResolveVanityURL")

\* C18: with the key configured, an import resolves a profile URL as it resolves
\* the id in it and a vanity URL as it resolves the name in it (the same id, the
\* same error, the same lookup); digits are the Steam id when there are 17 of them
\* and an error otherwise; the vanity lookup is made for non-numeric input only.
C18_ShapesResolveAlike ==
    [][ \A u \in Users, r \in ResolveRequests :
            (/\ resolved'.input = r.stripped
             /\ SteamImportBegin(u, r.input, r.api_key, r.vanity, r.library, r.fetch_tags)) =>
                LET bare == ResolveSteamId(r.bare, r.api_key, r.vanity)
                IN  /\ resolved'.steam_id = bare.steam_id
                    /\ resolved'.error = bare.error
                    /\ VanityLookups(remote_calls') = bare.calls
                    /\ (IsDigit(r.bare) /\ Len(r.bare) = SteamId64Len) =>
                          (resolved'.steam_id = r.bare /\ resolved'.error = NoMsg)
                    /\ (IsDigit(r.bare) /\ Len(r.bare) /= SteamId64Len) =>
                          (resolved'.steam_id = None /\ resolved'.error /= NoMsg)
                    /\ IsDigit(r.bare) => VanityLookups(remote_calls') = <<>>
                    /\ ~IsDigit(r.bare) =>
                          VanityLookups(remote_calls') =
                              <<[api |-> "ResolveVanityURL", arg |-> r.bare]>> ]_vars

\* a profile URL was resolved to the id in it without a lookup, and a library was
\* fetched for that id
C18_Witness ==
    /\ resolved.input = Https \o ProfilesUrl \o Id64 \o <<"/">>
    /\ resolved.steam_id = Id64
    /\ remote_calls = <<[api |-> "GetOwnedGames", arg |-> Id64]>>

-----------------------------------------------------------------------------
(* The counts of an import *)

\* the entries among the first n of the batch that the loop does not skip
Processed(t, n) == {j \in 1..n : ~EntryAt(t, j).skip}

SameKey(a, b) == a.appid = b.appid /\ a.platform = b.platform

\* the (appid, platform) of the j-th entry had a row when the loop came to it: a
\* row of the table the import started from, or the row of an earlier entry
ExistedWhenProcessed(t, j) ==
    \/ \E i \in DOMAIN game : SameKey(game[i], EntryAt(t, j))
    \/ \E k \in Processed(t, j - 1) : SameKey(EntryAt(t, k), EntryAt(t, j))

\* C19: while an import runs and when it reports, every processed entry is counted
\* once, as imported or as updated; imported_count is the number of game rows the
\* batch has created and updated_count the number of entries whose (appid,
\* platform) had a row when they were processed; the flashed counts are these.
C19_CountsPartitionEntries ==
    /\ [](~Idle =>
            /\ txn.imported_count + txn.updated_count =
                    Cardinality(Processed(txn, txn.i - 1))
            /\ txn.imported_count = Len(txn.game) - Len(game)
            /\ txn.updated_count =
                    Cardinality({j \in Processed(txn, txn.i - 1) :
                                    ExistedWhenProcessed(txn, j)}))
    /\ [][IsImportCommit =>
            /\ flashed'.imported = txn.imported_count
            /\ flashed'.updated = txn.updated_count
            /\ flashed'.imported = Len(game') - Len(game)
            /\ flashed'.imported + flashed'.updated =
                    Cardinality(Processed(txn, Len(txn.games)))]_vars

\* a manual batch over an empty store has been processed to its end: two rows
\* created, one entry updated because its appid came earlier in the batch, and one
\* empty line skipped
C19_Witness ==
    /\ ~Idle
    /\ txn.kind = "epic_manual"
    /\ txn.i > Len(txn.games)
    /\ game = <<>>
    /\ txn.imported_count = 2
    /\ txn.updated_count = 1
    /\ Len(txn.games) = 4

-----------------------------------------------------------------------------
(* steam.fetch_tags_background: the thread an import starts for its games_to_tag. *)
(* One step is one iteration of its loop; the remote answer and the point where   *)
(* the store refuses a statement are inputs.  The thread writes through its own   *)
(* connection: a statement that ran without a commit stays in worker.tags.  The   *)
(* appid of an item is carried as the text the import stored the game under.      *)

\* the statement of the iteration at which the store raises, and whether the text
\* of the exception holds "429"
StoreFaults ==
    { [at |-> "none", has429 |-> FALSE],
      [at |-> "delete", has429 |-> FALSE],
      [at |-> "insert", has429 |-> FALSE],
      [at |-> "insert", has429 |-> TRUE],
      [at |-> "commit", has429 |-> FALSE] }

AppDetailsUrl == <<"/","a","p","i","/","a","p","p","d","e","t","a","i","l","s","?",
                   "a","p","p","i","d","s","=">>

\* str(e) of a RequestException of requests.get(url, params={'appids': appid, ...}):
\* the status line of raise_for_status or the connection error, each with the url
RequestExceptionText(answer, appid) ==
    (IF answer.t = "HTTPError"
     THEN StrNat(answer.status_code) \o <<" ","E","r","r","o","r"," ","f","o","r"," ","u","r","l",":"," ">>
     ELSE <<"M","a","x"," ","r","e","t","r","i","e","s"," ","e","x","c","e","e","d","e","d",
            " ","w","i","t","h"," ","u","r","l",":"," ">>)
    \o AppDetailsUrl \o appid

-----------------------------------------------------------------------------
(* steam.get_game_details: one call, request by request.  Times are in      *)
(* milliseconds.  A response is what one requests.get ends with: a status   *)
(* of 429, another error status, a 200 with a JSON object, a 200 with a     *)
(* JSON value that is no object, or no response at all.                     *)

MaxRetries == 3         \* if retry_count < 3
BackoffBase == 2000     \* (2 ** retry_count) * 2 seconds
ItemDelay == 1500       \* time.sleep(1.5)
BulkDelay == 10000      \* time.sleep(10)

NoSteamDetails == [t |-> "None"]

\* get_game_details(appid) is entered with retry_count=0
StartedDetails(appid) ==
    [kind |-> "details", appid |-> appid, retry_count |-> 0, requests |-> 0,
     slept |-> <<>>, state |-> "calling", result |-> NoSteamDetails, printed |-> <<>>]

\* the same wait before every retry
WaitTimeFlat(retry_count) == BackoffBase

\* wait_time = (2 ** retry_count) * 2
WaitTime(retry_count) == (2 ^ retry_count) * BackoffBase

\* one pass through the body of get_game_details: the request, then a sleep and
\* the recursive call, or a return, or an exception that leaves the function
DetailsStep(c, response) ==
    LET sent == [c EXCEPT !.requests = @ + 1]
        Return(details, lines) ==
            [sent EXCEPT !.state = "returned", !.result = details,
                         !.printed = @ \o lines]
    IN  CASE response.t = "status429" ->
                IF c.retry_count < MaxRetries
                THEN [sent EXCEPT !.slept = Append(@, WaitTime(c.retry_count)),
                                  !.retry_count = @ + 1]
                ELSE Return(NoSteamDetails,
                            <<[msg |-> "Rate limited for game", appid |-> c.appid,
                               retries |-> c.retry_count]>>)
          [] response.t = "ok" ->
                IF response.has_appid /\ response.success
                THEN Return(response.data, <<>>)
                ELSE Return(NoSteamDetails, <<>>)
          [] response.t \in {"HTTPError", "ConnectionError"} ->
                Return(NoSteamDetails,
                       IF Contains(RequestExceptionText(response, c.appid), <<"4","2","9">>)
                       THEN <<>>
                       ELSE <<[msg |-> "Error fetching game details", appid |-> c.appid]>>)
          [] OTHER -> [sent EXCEPT !.state = "raised"]

\* get_game_details(appid) against the responses the remote gives in turn
RECURSIVE RunDetails(_, _)
RunDetails(c, responses) ==
    IF c.state /= "calling" \/ responses = <<>> THEN c
    ELSE RunDetails(DetailsStep(c, Head(responses)), Tail(responses))

GetGameDetails(appid, responses) == RunDetails(StartedDetails(appid), responses)

-----------------------------------------------------------------------------
(* steam.get_game_tags_from_steam: the tags of the genres and categories of *)
(* the details, normalized through tag_mapping.  The details are a dict      *)
(* that may lack 'genres' or 'categories'; a genre or a category is a dict   *)
(* that may lack 'description'.                                              *)

RolePlaying == <<"R","o","l","e","-","p","l","a","y","i","n","g">>
FirstPersonShooter ==
    <<"F","i","r","s","t","-","P","e","r","s","o","n"," ","S","h","o","o","t","e","r">>
ScienceFiction == <<"S","c","i","e","n","c","e"," ","F","i","c","t","i","o","n">>
Cooperative == <<"C","o","o","p","e","r","a","t","i","v","e">>
SinglePlayerDash == <<"S","i","n","g","l","e","-","p","l","a","y","e","r">>
MultiPlayerDash == <<"M","u","l","t","i","-","p","l","a","y","e","r">>

\* the dict tag_mapping, its items in the order of the literal
tag_mapping ==
    << [key |-> Action, value |-> Action],
       [key |-> Adventure, value |-> Adventure],
       [key |-> RPG, value |-> RPG],
       [key |-> RolePlaying, value |-> RPG],
       [key |-> Strategy, value |-> Strategy],
       [key |-> Simulation, value |-> Simulation],
       [key |-> Sports, value |-> Sports],
       [key |-> Racing, value |-> Racing],
       [key |-> Puzzle, value |-> Puzzle],
       [key |-> Indie, value |-> Indie],
       [key |-> Casual, value |-> Casual],
       [key |-> FirstPersonShooter, value |-> FPS],
       [key |-> FPS, value |-> FPS],
       [key |-> Horror, value |-> Horror],
       [key |-> SciFi, value |-> SciFi],
       [key |-> ScienceFiction, value |-> SciFi],
       [key |-> Fantasy, value |-> Fantasy],
       [key |-> OpenWorld, value |-> OpenWorld],
       [key |-> StoryRich, value |-> StoryRich],
       [key |-> Coop, value |-> Coop],
       [key |-> Cooperative, value |-> Coop],
       [key |-> Competitive, value |-> Competitive],
       [key |-> Sandbox, value |-> Sandbox],
       [key |-> Survival, value |-> Survival],
       [key |-> Crafting, value |-> Crafting],
       [key |-> Building, value |-> Building],
       [key |-> SinglePlayerDash, value |-> Singleplayer],
       [key |-> Singleplayer, value |-> Singleplayer],
       [key |-> MultiPlayerDash, value |-> Multiplayer],
       [key |-> Multiplayer, value |-> Multiplayer] >>

\* key.lower() of every item of tag_mapping
MappingKeysLower == [i \in DOMAIN tag_mapping |-> Lower(tag_mapping[i].key)]

\* x in the list s
InList(x, s) == \E i \in DOMAIN s : s[i] = x

\* the descriptions of the genres, as they are
GenreTags(game_details) ==
    IF "genres" \in DOMAIN game_details
    THEN FoldLeft(LAMBDA tags, genre :
                      IF "description" \in DOMAIN genre
                      THEN Append(tags, genre.description) ELSE tags,
                  <<>>, game_details.genres)
    ELSE <<>>

\* the tag of a category: the first of four words its description holds, if any
CategoryTag(cat_desc) ==
    IF Contains(cat_desc, SinglePlayerDash) THEN <<Singleplayer>>
    ELSE IF Contains(cat_desc, MultiPlayerDash) THEN <<Multiplayer>>
    ELSE IF Contains(cat_desc, Coop) THEN <<Coop>>
    ELSE IF Contains(cat_desc, Competitive) THEN <<Competitive>>
    ELSE <<>>

CategoryTags(game_details) ==
    IF "categories" \in DOMAIN game_details
    THEN FoldLeft(LAMBDA tags, category :
                      IF "description" \in DOMAIN category
                      THEN tags \o CategoryTag(category.description) ELSE tags,
                  <<>>, game_details.categories)
    ELSE <<>>

\* the loop body without the test of normalized_tags
NormalizeOneRepeats(normalized_tags, tag) ==
    IF \E i \in DOMAIN tag_mapping : MappingKeysLower[i] = Lower(tag)
    THEN Append(normalized_tags,
                tag_mapping[CHOOSE i \in DOMAIN tag_mapping : MappingKeysLower[i] = Lower(tag)].value)
    ELSE normalized_tags

\* the loop body over tags: the exact key, else the first key equal without case
NormalizeOne(normalized_tags, tag) ==
    LET Add(value) == IF InPopularTags(value) /\ ~InList(value, normalized_tags)
                      THEN Append(normalized_tags, value) ELSE normalized_tags
        tag_lower == Lower(tag)
    IN  IF \E i \in DOMAIN tag_mapping : tag_mapping[i].key = tag
        THEN Add(tag_mapping[CHOOSE i \in DOMAIN tag_mapping : tag_mapping[i].key = tag].value)
        ELSE IF \E i \in DOMAIN tag_mapping : MappingKeysLower[i] = tag_lower
             THEN Add(tag_mapping[CHOOSE i \in DOMAIN tag_mapping :
                                     /\ MappingKeysLower[i] = tag_lower
                                     /\ \A j \in 1..(i - 1) : MappingKeysLower[j] /= tag_lower].value)
             ELSE normalized_tags

NormalizeTags(tags) == FoldLeft(NormalizeOne, <<>>, tags)

\* the tags of details that get_game_details returned
TagsOfDetails(game_details) ==
    IF game_details = NoSteamDetails THEN <<>>
    ELSE NormalizeTags(GenreTags(game_details) \o CategoryTags(game_details))

-----------------------------------------------------------------------------
(* What the Steam store answers to the tag thread *)

\* a 200 whose JSON object has the appid with success and these details
Ok(details) == [t |-> "ok", has_appid |-> TRUE, success |-> TRUE, data |-> details]
Status429 == [t |-> "status429"]

Description(text) == [id |-> 1, description |-> text]
FreeToPlay == <<"F","r","e","e"," ","t","o"," ","P","l","a","y">>

\* what get_game_details is answered until it ends: details with two genres, with
\* one, with a genre outside the vocabulary, an object without success, 429 on
\* every attempt, 429 and then details, an HTTP error status, no connection, and
\* a body that is no JSON object
TagAnswers ==
    { <<Ok([name |-> HL, genres |-> <<Description(Action), Description(RolePlaying)>>])>>,
      <<Ok([name |-> HL, genres |-> <<Description(Action)>>])>>,
      <<Ok([name |-> HL, genres |-> <<Description(FreeToPlay)>>])>>,
      <<[t |-> "ok", has_appid |-> TRUE, success |-> FALSE, data |-> NoSteamDetails]>>,
      <<Status429, Status429, Status429, Status429>>,
      <<Status429, Ok([name |-> HL, genres |-> <<Description(Action)>>])>>,
      <<[t |-> "HTTPError", status_code |-> 500]>>,
      <<[t |-> "ConnectionError", status_code |-> 0]>>,
      <<[t |-> "Exception"]>> }

\* get_game_tags_from_steam(appid): the tags, what is printed and slept on the way
GetGameTagsFromSteam(appid, answer) ==
    LET c == GetGameDetails(appid, answer)
    IN  IF c.state = "raised"
        THEN [tags |-> <<>>, slept |-> c.slept, requests |-> c.requests,
              printed |-> c.printed \o <<[msg |-> "Error fetching game tags for appid",
                                          appid |-> appid]>>]
        ELSE [tags |-> TagsOfDetails(c.result), slept |-> c.slept, requests |-> c.requests,
              printed |-> c.printed]

-----------------------------------------------------------------------------
(* The loop of fetch_tags_background *)

\* the loop variable after an iteration, whatever it raised
WorkerAfter(w) == [w EXCEPT !.i = @ + 1]

\* the mutated form: the DELETE and the INSERTs run for an empty list too
SteamTagsAnyList(steam_tags) == TRUE

\* if steam_tags:  (a list is true unless it is empty)
SteamTagsTrue(steam_tags) == steam_tags /= <<>>

\* one iteration of the loop of fetch_tags_background
WorkerItem(answer, fault) ==
    /\ worker.state = "running"
    /\ worker.i <= Len(worker.games_to_tag)
    /\ LET game_info == worker.games_to_tag[worker.i]
           fetched == GetGameTagsFromSteam(game_info.appid, answer)
           base == IF worker.dirty THEN worker.tags ELSE game_tag
           deleted == DeleteWhere(base, LAMBDA r : r.game_id = game_info.game_id)
           inserted == FoldLeft(LAMBDA t, tag :
                                    IF TagIntegrityError(t, game_info.game_id, tag) THEN t
                                    ELSE InsertRow(t, [game_id |-> game_info.game_id,
                                                       tag |-> tag]),
                                deleted, fetched.tags)
           raised == <<[msg |-> IF fault.has429 THEN "Rate limited, waiting longer"
                                ELSE "Error fetching tags for game",
                        appid |-> game_info.appid]>>
           waited == IF fault.has429 THEN <<BulkDelay>> ELSE <<>>
           w == [worker EXCEPT !.attempted = Append(@, game_info),
                               !.printed = @ \o fetched.printed,
                               !.slept = @ \o <<ItemDelay>> \o fetched.slept]
       IN  IF ~SteamTagsTrue(fetched.tags)
           THEN /\ worker' = WorkerAfter(w)
                /\ UNCHANGED game_tag
           ELSE CASE fault.at = "none" ->
                        /\ worker' = WorkerAfter([w EXCEPT !.dirty = FALSE, !.tags = EmptyBag,
                                                           !.tagged_count = @ + 1])
                        /\ game_tag' = inserted
                  [] fault.at = "delete" ->
                        /\ worker' = WorkerAfter([w EXCEPT !.printed = @ \o raised,
                                                           !.slept = @ \o waited])
                        /\ UNCHANGED game_tag
                  [] fault.at = "insert" ->
                        /\ worker' = WorkerAfter([w EXCEPT !.dirty = TRUE, !.tags = deleted,
                                                           !.printed = @ \o raised,
                                                           !.slept = @ \o waited])
                        /\ UNCHANGED game_tag
                  [] fault.at = "commit" ->
                        /\ worker' = WorkerAfter([w EXCEPT !.dirty = TRUE, !.tags = inserted,
                                                           !.tagged_count = @ + 1,
                                                           !.printed = @ \o raised,
                                                           !.slept = @ \o waited])
                        /\ UNCHANGED game_tag
    /\ UNCHANGED <<game, user_game_library, user_preferences, user_follows, now, txn,
                   spawned, remote_calls, resolved, threads, flashed, rendered, lastImport,
                   requests>>

\* the end of the loop: finally conn.close(), which drops what was not committed,
\* and the closing print
WorkerFinish ==
    /\ worker.state = "running"
    /\ worker.i > Len(worker.games_to_tag)
    /\ worker' = [worker EXCEPT !.state = "finished", !.conn = "closed",
                                !.dirty = FALSE, !.tags = EmptyBag,
                                !.printed = Append(@, [msg |-> "Background tag fetching completed",
                                                       tagged |-> worker.tagged_count])]
    /\ UNCHANGED <<store, now, txn, spawned, remote_calls, resolved, threads, flashed, rendered,
                   lastImport, requests>>

NumWorkerGames == 3

\* 10, 4290, 10, 20, 4290, 10, 30, ...
WorkerAppid(n) ==
    CASE n % 3 = 1 -> 10 * ((n + 2) \div 3)
      [] n % 3 = 2 -> 4290
      [] OTHER -> 10

\* a Steam library of n games, some of them under an appid that came before
RECURSIVE WorkerLibrary(_)
WorkerLibrary(n) ==
    IF n = 0 THEN <<>>
    ELSE Append(WorkerLibrary(n - 1),
                [appid |-> WorkerAppid(n), name |-> HL, playtime_forever |-> n])

\* the import loop run to its end
RECURSIVE RunSteamLoop(_, _)
RunSteamLoop(t, clock) ==
    IF t.i > Len(t.games) THEN t ELSE RunSteamLoop(SteamLoopBody(t, clock), clock)

\* user 1 has just imported a Steam library with tag fetching on: the rows are
\* committed and the thread is started
InitWorkerOf(sizes) ==
    \E n \in sizes, old \in {<<>>, <<RPG, Indie>>} :
        LET t == RunSteamLoop([kind |-> "steam", user |-> 1, games |-> WorkerLibrary(n),
                               i |-> 1, game |-> <<>>, ugl |-> EmptyBag,
                               imported_count |-> 0, updated_count |-> 0,
                               games_to_tag |-> <<>>, tag_fetch_enabled |-> TRUE], 0)
        IN  /\ game = t.game
            /\ user_game_library = t.ugl
            /\ game_tag = FoldLeft(LAMBDA b, tag : InsertRow(b, [game_id |-> 1, tag |-> tag]),
                                   EmptyBag, old)
            /\ user_preferences = <<>>
            /\ user_follows = EmptyBag
            /\ now = 0
            /\ txn = NoTxn
            /\ spawned = t.games_to_tag
            /\ worker = StartedWorker(t.games_to_tag)
            /\ threads = <<>>
            /\ remote_calls = <<>>
            /\ resolved = NoResolved
            /\ flashed = [msg |-> "Successfully imported", kind |-> "steam",
                          imported |-> t.imported_count, updated |-> t.updated_count,
                          tags_in_background |-> TRUE]
            /\ rendered = NoPage
            /\ lastImport = [kind |-> "steam", user |-> 1, games |-> t.games, repeat |-> 0]
            /\ requests = 1

InitWorker == InitWorkerOf(1..NumWorkerGames)

NextWorker ==
    \/ \E answer \in TagAnswers, fault \in StoreFaults : WorkerItem(answer, fault)
    \/ WorkerFinish

SpecWorker == InitWorker /\ [][NextWorker]_vars

\* the thread is scheduled and each of its statements returns: the sleeps are
\* bounded, requests.get has timeout=10 and at most three retries, and a statement
\* the store cannot run raises
SpecWorkerFair ==
    /\ SpecWorker
    /\ WF_vars(\E answer \in TagAnswers, fault \in StoreFaults : WorkerItem(answer, fault))
    /\ WF_vars(WorkerFinish)

\* the fetch or a statement of the store failed in this iteration
ItemFailed(answer, fault) ==
    \/ answer[Len(answer)].t \in {"status429", "HTTPError", "ConnectionError", "Exception"}
    \/ GetGameTagsFromSteam(None, answer).tags /= <<>> /\ fault.at /= "none"

\* C20 (order): the items attempted are the queue up to the loop variable, each
\* once and in queue order, and the connection is open until the thread finishes.
C20_AttemptsInQueueOrder ==
    worker.state /= "none" =>
        /\ worker.i \in 1..(Len(worker.games_to_tag) + 1)
        /\ worker.attempted = SubSeq(worker.games_to_tag, 1, worker.i - 1)
        /\ worker.state = "running" => worker.conn = "open"
        /\ worker.state = "finished" =>
              (worker.attempted = worker.games_to_tag /\ worker.conn = "closed")

\* C20 (failures): an iteration whose fetch or store write failed prints a line and
\* leaves the thread running on the next item.
C20_FailureIsLoggedAndPassed ==
    [][ \A answer \in TagAnswers, fault \in StoreFaults :
            (WorkerItem(answer, fault) /\ ItemFailed(answer, fault)) =>
                /\ Len(worker'.printed) > Len(worker.printed)
                /\ worker'.state = "running"
                /\ worker'.i = worker.i + 1 ]_vars

\* C20 (end): the thread reaches the end of its queue and closes its connection.
C20_EventuallyClosed == <>(worker.state = "finished" /\ worker.conn = "closed")

\* C20: the tag thread attempts every queued item once and in queue order whatever
\* the earlier items did, prints a line for every failed fetch and every failed
\* store write and goes on, and in the end has run through the queue and closed
\* its connection.
C20_WorkerRunsThroughQueue ==
    /\ []C20_AttemptsInQueueOrder
    /\ C20_FailureIsLoggedAndPassed
    /\ C20_EventuallyClosed

-----------------------------------------------------------------------------
(* One call of get_game_details against a remote that answers as it likes *)

DetailsAppids == { <<"1","0">>, <<"2","0">>, <<"4","2","9","0">> }

\* what one request of the call can end with
DetailsResponses ==
    { Status429,
      Ok([name |-> HL, genres |-> <<Description(Action), Description(RolePlaying)>>]),
      Ok([name |-> HL, genres |-> <<Description(FreeToPlay)>>,
          categories |-> <<Description(SinglePlayerDash)>>]),
      Ok([name |-> HL]),
      Ok([name |-> HL, genres |-> <<Description(Indie)>>]),
      Ok([name |-> HL, categories |-> <<Description(MultiPlayerDash), Description(Coop)>>]),
      [t |-> "ok", has_appid |-> TRUE, success |-> FALSE, data |-> NoSteamDetails],
      [t |-> "ok", has_appid |-> FALSE, success |-> FALSE, data |-> NoSteamDetails],
      [t |-> "HTTPError", status_code |-> 500],
      [t |-> "HTTPError", status_code |-> 403],
      [t |-> "ConnectionError", status_code |-> 0],
      [t |-> "Exception"] }

\* get_game_details(appid) is called
DetailsCall(appid) ==
    /\ threads = <<>>
    /\ threads' = <<StartedDetails(appid)>>
    /\ UNCHANGED <<store, now, txn, spawned, worker, remote_calls, resolved, flashed,
                   rendered, lastImport, requests>>

\* requests.get of the call returns or raises, and the call goes on from there
DetailsRequest(response) ==
    /\ threads /= <<>>
    /\ threads[1].kind = "details"
    /\ threads[1].state = "calling"
    /\ threads' = [threads EXCEPT ![1] = DetailsStep(@, response)]
    /\ UNCHANGED <<store, now, txn, spawned, worker, remote_calls, resolved, flashed,
                   rendered, lastImport, requests>>

NextDetails ==
    \/ \E appid \in DetailsAppids : DetailsCall(appid)
    \/ \E response \in DetailsResponses : DetailsRequest(response)

SpecDetails == InitFail /\ [][NextDetails]_vars

\* every request of the call ends: requests.get has timeout=10, and time.sleep
\* returns
SpecDetailsFair ==
    /\ SpecDetails
    /\ WF_vars(\E appid \in DetailsAppids : DetailsCall(appid))
    /\ WF_vars(\E response \in DetailsResponses : DetailsRequest(response))

\* the waits of a call that was answered 429 n times: 2 s, then twice the one before
RECURSIVE Backoff(_)
Backoff(n) == IF n = 0 THEN <<>>
              ELSE IF n = 1 THEN <<BackoffBase>>
              ELSE Append(Backoff(n - 1), 2 * Backoff(n - 1)[n - 1])

DetailsCalled == threads /= <<>> /\ threads[1].kind = "details"

\* the call has slept the doubling waits, one after each 429 it retried on, and
\* has sent no more than attempts requests; when it has given up on 429 it has
\* sent them all and returns None
BackoffWithin(attempts) ==
    DetailsCalled =>
        LET c == threads[1]
            given_up == \E i \in DOMAIN c.printed : c.printed[i].msg = "Rate limited for game"
        IN  /\ c.slept = Backoff(c.retry_count)
            /\ c.requests <= attempts
            /\ c.requests = c.retry_count + (IF c.state = "calling" THEN 0 ELSE 1)
            /\ given_up => c.state = "returned" /\ c.result = NoSteamDetails
                           /\ c.requests = attempts

DetailsEnded == DetailsCalled /\ threads[1].state /= "calling"

\* C21: a call of get_game_details that keeps being answered 429 waits 2 s before
\* the first retry and twice the wait before on each following retry, retries 3
\* times, so sends no more than 4 requests, then gives up and returns None; the
\* call ends whatever the remote answers.
C21_BackoffThenGiveUp == []BackoffWithin(MaxRetries + 1) /\ <>DetailsEnded

\* C21 as stated: no more than 3 attempts in total.
C21_ThreeAttemptsInTotal == []BackoffWithin(MaxRetries) /\ <>DetailsEnded

\* a call has given up after 2 s, 4 s and 8 s
C21_Witness ==
    /\ DetailsEnded
    /\ threads[1].slept = <<2000, 4000, 8000>>
    /\ threads[1].requests = 4
    /\ threads[1].result = NoSteamDetails
    /\ threads[1].printed = <<[msg |-> "Rate limited for game", appid |-> threads[1].appid,
                               retries |-> 3]>>

-----------------------------------------------------------------------------
(* The normalization on details of every shape *)

MaxGenres == 2       \* genres of the details
MaxCategories == 2   \* categories of the details

SciFiUpper == <<"S","C","I","-","F","I">>
RolePlayingLower == Lower(RolePlaying)
OnlineCoop == <<"O","n","l","i","n","e"," ","C","o","-","o","p">>
SinglePlayerLower == Lower(SinglePlayerDash)

\* genre descriptions: keys of tag_mapping, keys in another case, two keys of one
\* tag, and texts that are no key
GenrePool ==
    { Action, RPG, RolePlayingLower, SciFiUpper, Cooperative, FreeToPlay,
      Append(Indie, " ") }

\* category descriptions: with one of the four words, with two, and keys of
\* tag_mapping without any of them
CategoryPool ==
    { SinglePlayerDash, OnlineCoop, MultiPlayerDash \o <<" ">> \o Coop, Cooperative,
      SinglePlayerLower }

\* the lists of at most n members of S
RECURSIVE ListsUpTo(_, _)
ListsUpTo(S, n) ==
    IF n = 0 THEN {<<>>}
    ELSE ListsUpTo(S, n - 1) \cup
         { Append(l, x) : l \in {m \in ListsUpTo(S, n - 1) : Len(m) = n - 1}, x \in S }

Descriptions(texts) == [i \in DOMAIN texts |-> Description(texts[i])]

\* details with these genres and categories
NormalizeInputs ==
    { [name |-> HL, genres |-> Descriptions(g), categories |-> Descriptions(c)] :
        g \in ListsUpTo(GenrePool, MaxGenres), c \in ListsUpTo(CategoryPool, MaxCategories) }
    \cup { [name |-> HL],
           [name |-> HL, genres |-> <<[id |-> 1], Description(Action)>>],
           [name |-> HL, categories |-> <<[id |-> 1], Description(OnlineCoop)>>] }


\* get_game_tags_from_steam has its details
TagsCalled(game_details) ==
    [kind |-> "tags", state |-> "called", game_details |-> game_details, tags |-> <<>>]

InitNormalize ==
    /\ game = <<>>
    /\ user_game_library = EmptyBag
    /\ game_tag = EmptyBag
    /\ user_preferences = <<>>
    /\ user_follows = EmptyBag
    /\ now = 0
    /\ txn = NoTxn
    /\ spawned = <<>>
    /\ worker = NoWorker
    /\ threads \in { <<TagsCalled(game_details)>> : game_details \in NormalizeInputs }
    /\ remote_calls = <<>>
    /\ resolved = NoResolved
    /\ flashed = NoFlash
    /\ rendered = NoPage
    /\ lastImport = NoImport
    /\ requests = 0

\* get_game_tags_from_steam from the details to its return
TagsReturned ==
    /\ threads /= <<>>
    /\ threads[1].kind = "tags"
    /\ threads[1].state = "called"
    /\ threads' = [threads EXCEPT ![1].state = "returned",
                                  ![1].tags = TagsOfDetails(threads[1].game_details)]
    /\ UNCHANGED <<store, now, txn, spawned, worker, remote_calls, resolved, flashed,
                   rendered, lastImport, requests>>

NextNormalize == TagsReturned

SpecNormalize == InitNormalize /\ [][NextNormalize]_vars

\* the descriptions of the items of a list of genres or categories
DescriptionsOf(items) ==
    { items[i].description : i \in {j \in DOMAIN items : "description" \in DOMAIN items[j]} }

GenresOf(game_details) ==
    IF "genres" \in DOMAIN game_details THEN DescriptionsOf(game_details.genres) ELSE {}
CategoriesOf(game_details) ==
    IF "categories" \in DOMAIN game_details THEN DescriptionsOf(game_details.categories)
    ELSE {}

\* the tags tag_mapping gives a text: those of the key equal to it, and without
\* such a key those of the keys equal to it without case
AliasTargets(text) ==
    LET exact == { tag_mapping[i].value : i \in {j \in DOMAIN tag_mapping :
                                                    tag_mapping[j].key = text} }
        lower == Lower(text)
        nocase == { tag_mapping[i].value : i \in {j \in DOMAIN tag_mapping :
                                                     MappingKeysLower[j] = lower} }
    IN  IF exact /= {} THEN exact ELSE nocase

\* the tag of a category: of 'Single-player', 'Multi-player', 'Co-op' and
\* 'Competitive', the first its description holds
CategoryWords == <<[word |-> SinglePlayerDash, tag |-> Singleplayer],
                   [word |-> MultiPlayerDash, tag |-> Multiplayer],
                   [word |-> Coop, tag |-> Coop],
                   [word |-> Competitive, tag |-> Competitive]>>
WordTargets(text) ==
    { CategoryWords[i].tag : i \in {j \in DOMAIN CategoryWords :
            /\ Contains(text, CategoryWords[j].word)
            /\ \A k \in 1..(j - 1) : ~Contains(text, CategoryWords[k].word)} }

TagsWereReturned == threads /= <<>> /\ threads[1].kind = "tags" /\ threads[1].state = "returned"

NoDuplicates(s) == \A i, j \in DOMAIN s : s[i] = s[j] => i = j
Members(s) == { s[i] : i \in DOMAIN s }

\* C22: the normalized tag list holds only tags of the vocabulary and none twice;
\* it holds the alias target of every genre that is a key of the alias table
\* exactly or, failing that, without case, the tag of every category whose text
\* holds 'Single-player', 'Multi-player', 'Co-op' or 'Competitive' (the first of
\* them it holds), and nothing else.
C22_NormalizedTags ==
    TagsWereReturned =>
        LET d == threads[1].game_details
            tags == threads[1].tags
        IN  /\ \A i \in DOMAIN tags : InPopularTags(tags[i])
            /\ NoDuplicates(tags)
            /\ Members(tags) = UNION { AliasTargets(g) : g \in GenresOf(d) }
                               \cup UNION { WordTargets(c) : c \in CategoriesOf(d) }

\* C22 as stated: every input, genre or category, gives its alias target and an
\* input that is no alias key gives nothing.
C22_EveryInputThroughAliases ==
    TagsWereReturned =>
        LET d == threads[1].game_details
            tags == threads[1].tags
        IN  /\ \A i \in DOMAIN tags : InPopularTags(tags[i])
            /\ NoDuplicates(tags)
            /\ Members(tags) = UNION { AliasTargets(x) : x \in GenresOf(d) \cup CategoriesOf(d) }

\* two keys of one tag, one of them in another case, a category with two of the
\* words and one with none
C22_Witness ==
    /\ TagsWereReturned
    /\ GenresOf(threads[1].game_details) = {RPG, RolePlayingLower}
    /\ CategoriesOf(threads[1].game_details) = {MultiPlayerDash \o <<" ">> \o Coop, Cooperative}
    /\ threads[1].tags = <<RPG, Multiplayer>>

-----------------------------------------------------------------------------
(* Two threads of fetch_tags_background on one queue, statement by statement. *)
(* Each thread has its own connection (sqlite3.connect with the default       *)
(* isolation level): its first DELETE opens a transaction and takes the       *)
(* store's write lock, its statements are its own until db.commit(), and a    *)
(* connection that finds the lock taken waits, and raises 'database is        *)
(* locked' when the wait times out or cannot end.  A connection whose DELETE  *)
(* was refused may keep the read lock of its open transaction, and db.commit  *)
(* of the writer raises while another connection has a read lock.             *)

NumRaceGames == 2   \* games in the queue of the two threads

\* isolation_level of the connections: implicit transactions, or autocommit
Autocommit == FALSE
ImplicitTransaction == TRUE

\* fetch_tags_background(app, games_to_tag) is started
StartedTask(games_to_tag) ==
    [kind |-> "tag_task", games_to_tag |-> games_to_tag, i |-> 1, pc |-> "fetch",
     steam_tags |-> <<>>, k |-> 1, dirty |-> FALSE, tags |-> EmptyBag, reading |-> FALSE,
     pending |-> <<>>, tagged_count |-> 0, printed |-> 0, written |-> <<>>]

\* another connection has a read lock
ReadLockHeld(i) ==
    \E j \in DOMAIN threads : j /= i /\ "reading" \in DOMAIN threads[j] /\ threads[j].reading

\* another connection has the write lock
WriteLockHeld(i) ==
    \E j \in DOMAIN threads : j /= i /\ "dirty" \in DOMAIN threads[j] /\ threads[j].dirty

\* what the remote answers a thread for an item
RaceAnswers ==
    { <<Ok([name |-> HL, genres |-> <<Description(Action), Description(RolePlaying)>>])>>,
      <<Ok([name |-> HL, genres |-> <<Description(RPG), Description(Indie)>>])>>,
      <<Ok([name |-> HL, genres |-> <<Description(FreeToPlay)>>])>> }

\* the thread goes to its next item
TaskNext(t) == [t EXCEPT !.i = @ + 1, !.pc = "fetch", !.steam_tags = <<>>, !.k = 1]

IsTask(i) == i \in DOMAIN threads /\ threads[i].kind = "tag_task"

\* time.sleep(1.5) and steam_tags = get_game_tags_from_steam(appid)
TaskFetch(i, answer) ==
    /\ IsTask(i)
    /\ threads[i].pc = "fetch"
    /\ threads[i].i <= Len(threads[i].games_to_tag)
    /\ LET t == threads[i]
           fetched == GetGameTagsFromSteam(t.games_to_tag[t.i].appid, answer)
       IN  threads' = [threads EXCEPT ![i] =
                          IF fetched.tags = <<>> THEN TaskNext(t)
                          ELSE [t EXCEPT !.steam_tags = fetched.tags, !.pc = "delete"]]
    /\ UNCHANGED <<store, now, txn, spawned, worker, remote_calls, resolved, flashed,
                   rendered, lastImport, requests>>

\* DELETE FROM game_tag WHERE game_id = ?
TaskDelete(i) ==
    /\ IsTask(i)
    /\ threads[i].pc = "delete"
    /\ ImplicitTransaction => ~WriteLockHeld(i)
    /\ LET t == threads[i]
           game_id == t.games_to_tag[t.i].game_id
           base == IF t.dirty THEN t.tags ELSE game_tag
           deleted == DeleteWhere(base, LAMBDA r : r.game_id = game_id)
       IN  IF ImplicitTransaction
           THEN /\ threads' = [threads EXCEPT ![i] = [t EXCEPT !.dirty = TRUE, !.tags = deleted,
                                                               !.pc = "insert"]]
                /\ UNCHANGED game_tag
           ELSE /\ threads' = [threads EXCEPT ![i] = [t EXCEPT !.pc = "insert"]]
                /\ game_tag' = deleted
    /\ UNCHANGED <<game, user_game_library, user_preferences, user_follows, now, txn,
                   spawned, worker, remote_calls, resolved, flashed, rendered, lastImport,
                   requests>>

\* the wait for the lock ended without it: the DELETE raises, the loop prints and
\* goes on, with the transaction of the DELETE open
TaskDeleteBusy(i, reading) ==
    /\ IsTask(i)
    /\ threads[i].pc = "delete"
    /\ ImplicitTransaction
    /\ WriteLockHeld(i)
    /\ threads' = [threads EXCEPT ![i] = TaskNext([@ EXCEPT !.printed = @ + 1,
                                                           !.reading = reading])]
    /\ UNCHANGED <<store, now, txn, spawned, worker, remote_calls, resolved, flashed,
                   rendered, lastImport, requests>>

\* INSERT INTO game_tag (game_id, tag) VALUES (?, ?) for the next of steam_tags
TaskInsert(i) ==
    /\ IsTask(i)
    /\ threads[i].pc = "insert"
    /\ LET t == threads[i]
           game_id == t.games_to_tag[t.i].game_id
           tag == t.steam_tags[t.k]
           base == IF ImplicitTransaction THEN t.tags ELSE game_tag
           inserted == IF TagIntegrityError(base, game_id, tag) THEN base
                       ELSE InsertRow(base, [game_id |-> game_id, tag |-> tag])
           after == [t EXCEPT !.k = @ + 1,
                              !.pc = IF t.k = Len(t.steam_tags) THEN "commit" ELSE "insert"]
       IN  IF ImplicitTransaction
           THEN /\ threads' = [threads EXCEPT ![i] = [after EXCEPT !.tags = inserted]]
                /\ UNCHANGED game_tag
           ELSE /\ threads' = [threads EXCEPT ![i] = after]
                /\ game_tag' = inserted
    /\ UNCHANGED <<game, user_game_library, user_preferences, user_follows, now, txn,
                   spawned, worker, remote_calls, resolved, flashed, rendered, lastImport,
                   requests>>

\* the commits of all threads so far
RECURSIVE Commits(_)
Commits(ts) == IF ts = <<>> THEN 0 ELSE Len(Head(ts).written) + Commits(Tail(ts))

\* the items a thread has written in its open transaction, this one included
Pending(t) == Append(t.pending, [game_id |-> t.games_to_tag[t.i].game_id,
                                 steam_tags |-> t.steam_tags])

\* tagged_count += 1 and db.commit()
TaskCommit(i) ==
    /\ IsTask(i)
    /\ threads[i].pc = "commit"
    /\ ImplicitTransaction => ~ReadLockHeld(i)
    /\ LET t == threads[i]
           n == Commits(threads)
           done == [j \in DOMAIN Pending(t) |->
                       [game_id |-> Pending(t)[j].game_id,
                        steam_tags |-> Pending(t)[j].steam_tags, nth |-> n + j]]
       IN  /\ threads' = [threads EXCEPT ![i] =
                            TaskNext([t EXCEPT !.dirty = FALSE, !.tags = EmptyBag,
                                               !.reading = FALSE, !.pending = <<>>,
                                               !.tagged_count = @ + 1,
                                               !.written = @ \o done])]
           /\ game_tag' = IF ImplicitTransaction THEN t.tags ELSE game_tag
    /\ UNCHANGED <<game, user_game_library, user_preferences, user_follows, now, txn,
                   spawned, worker, remote_calls, resolved, flashed, rendered, lastImport,
                   requests>>

\* db.commit() raises 'database is locked': the loop prints and goes on with the
\* transaction open and the count raised
TaskCommitBusy(i) ==
    /\ IsTask(i)
    /\ threads[i].pc = "commit"
    /\ ImplicitTransaction
    /\ ReadLockHeld(i)
    /\ threads' = [threads EXCEPT ![i] =
                      TaskNext([@ EXCEPT !.pending = Pending(threads[i]),
                                         !.tagged_count = @ + 1, !.printed = @ + 1])]
    /\ UNCHANGED <<store, now, txn, spawned, worker, remote_calls, resolved, flashed,
                   rendered, lastImport, requests>>

\* the loop is over: conn.close(), which ends an open transaction without a
\* commit, and the closing print
TaskClose(i) ==
    /\ IsTask(i)
    /\ threads[i].pc = "fetch"
    /\ threads[i].i > Len(threads[i].games_to_tag)
    /\ threads' = [threads EXCEPT ![i] = [@ EXCEPT !.pc = "closed", !.printed = @ + 1,
                                                   !.dirty = FALSE, !.tags = EmptyBag,
                                                   !.reading = FALSE, !.pending = <<>>]]
    /\ UNCHANGED <<store, now, txn, spawned, worker, remote_calls, resolved, flashed,
                   rendered, lastImport, requests>>

\* user 1 has imported a Steam library of one of these sizes twice in a row with
\* tag fetching on: both imports are committed and each has started its thread on
\* the same queue
InitRaceOf(sizes) ==
    \E n \in sizes, old \in {<<>>, <<Indie, Casual>>} :
        LET t == RunSteamLoop([kind |-> "steam", user |-> 1, games |-> WorkerLibrary(n),
                               i |-> 1, game |-> <<>>, ugl |-> EmptyBag,
                               imported_count |-> 0, updated_count |-> 0,
                               games_to_tag |-> <<>>, tag_fetch_enabled |-> TRUE], 0)
        IN  /\ game = t.game
            /\ user_game_library = t.ugl
            /\ game_tag = FoldLeft(LAMBDA b, tag : InsertRow(b, [game_id |-> 1, tag |-> tag]),
                                   EmptyBag, old)
            /\ user_preferences = <<>>
            /\ user_follows = EmptyBag
            /\ now = 0
            /\ txn = NoTxn
            /\ spawned = t.games_to_tag
            /\ worker = NoWorker
            /\ threads = <<StartedTask(t.games_to_tag), StartedTask(t.games_to_tag)>>
            /\ remote_calls = <<>>
            /\ resolved = NoResolved
            /\ flashed = [msg |-> "Successfully imported", kind |-> "steam",
                          imported |-> 0, updated |-> t.imported_count,
                          tags_in_background |-> TRUE]
            /\ rendered = NoPage
            /\ lastImport = [kind |-> "steam", user |-> 1, games |-> t.games, repeat |-> 1]
            /\ requests = 2

InitRace == InitRaceOf(1..NumRaceGames)

NextRace ==
    \/ \E i \in 1..2, answer \in RaceAnswers : TaskFetch(i, answer)
    \/ \E i \in 1..2 : TaskDelete(i)
    \/ \E i \in 1..2, reading \in BOOLEAN : TaskDeleteBusy(i, reading)
    \/ \E i \in 1..2 : TaskInsert(i)
    \/ \E i \in 1..2 : TaskCommit(i)
    \/ \E i \in 1..2 : TaskCommitBusy(i)
    \/ \E i \in 1..2 : TaskClose(i)

SpecRace == InitRace /\ [][NextRace]_vars

BothClosed == \A i \in DOMAIN threads : threads[i].kind = "tag_task" /\ threads[i].pc = "closed"

\* what the threads committed for a game, each with its place among all commits
WrittenFor(game_id) ==
    UNION { { threads[i].written[j] : j \in {k \in DOMAIN threads[i].written :
                                              threads[i].written[k].game_id = game_id} } :
            i \in DOMAIN threads }

\* C25: when both threads have run through the queue, the tags of a game that a
\* thread wrote are exactly the list of the thread that committed it last: not a
\* mixture of the two lists and not empty.
C25_LastWriterWins ==
    (threads /= <<>> /\ BothClosed) =>
        \A g \in DOMAIN game :
            WrittenFor(g) /= {} =>
                LET last == CHOOSE w \in WrittenFor(g) :
                                \A v \in WrittenFor(g) : v.nth <= w.nth
                IN  /\ TagsOfGame(g) = Members(last.steam_tags)
                    /\ TagsOfGame(g) /= {}

\* both threads wrote game 1, with different lists, and the one that wrote last
\* had to let the other commit first
C25_Witness ==
    /\ threads /= <<>> /\ BothClosed
    /\ \E v, w \in WrittenFor(1) : v.steam_tags = <<Action, RPG>> /\ w.steam_tags = <<RPG, Indie>>
                                   /\ v.nth < w.nth
    /\ TagsOfGame(1) = {RPG, Indie}

-----------------------------------------------------------------------------
(* Manual tag edits while the tag threads run *)

\* the tags a game's tag form posts: one of them twice, one outside the vocabulary
RaceForms == { <<Action>>, <<RPG, Bogus, Action, RPG>> }

NextTagWriters ==
    \/ \E i \in 1..2, answer \in RaceAnswers : TaskFetch(i, answer)
    \/ \E i \in 1..2 : TaskDelete(i)
    \/ \E i \in 1..2, reading \in BOOLEAN : TaskDeleteBusy(i, reading)
    \/ \E i \in 1..2 : TaskInsert(i)
    \/ \E i \in 1..2 : TaskCommit(i)
    \/ \E i \in 1..2 : TaskCommitBusy(i)
    \/ \E i \in 1..2 : TaskClose(i)
    \/ \E game_id \in {1, 2}, selected_tags \in RaceForms :
            ManageGameTags(game_id, selected_tags)

\* the two threads have the one game of the library in their queue
InitTagWriters == InitRaceOf({1})

SpecTagWriters == InitTagWriters /\ [][NextTagWriters]_vars

\* no row of a game_tag table twice
IsSet(t) == \A r \in Rows(t) : t[r] = 1

\* C23: whatever manual tag edits and tag threads have run, and however their
\* statements interleave, no (game, tag) pair is stored twice, in the table and
\* in what a connection has written and not yet committed.
C23_TagsAreASet ==
    /\ IsSet(game_tag)
    /\ \A i \in DOMAIN threads : threads[i].kind = "tag_task" => IsSet(threads[i].tags)

\* a form that names a tag twice was stored between the commits of the two threads
C23_Witness ==
    /\ flashed.msg = "Tags updated for"
    /\ TagsOfGame(1) = {RPG, Action}
    /\ threads /= <<>>
    /\ threads[1].written /= <<>>
    /\ threads[2].pc = "delete"


\* ---------------------------------------------------------------------------
\* Requests that name a user or a game the store does not hold
\* (follow_user, unfollow_user, common_games, manage_game_tags)

NextAbsent ==
    \/ \E game_id \in 1..(Len(game) + 1), selected_tags \in TagForms :
          ManageGameTags(game_id, selected_tags)
    \/ \E u \in Users, user_id \in UserIds : FollowUser(u, user_id)
    \/ \E u \in Users, user_id \in UserIds : UnfollowUser(u, user_id)
    \/ \E u \in Users, user_id \in UserIds : CommonGames(u, user_id, None, None)

SpecAbsent == InitRec /\ [][NextAbsent]_vars

AbsentUsers == UserIds \ Users

\* the request ended with a redirect, nothing written, and this message
RedirectedWith(msgs) ==
    /\ store' = store
    /\ rendered' = NoPage
    /\ flashed'.msg \in msgs

AbsentUserStep ==
    \A u \in Users, user_id \in AbsentUsers :
       /\ FollowUser(u, user_id) => RedirectedWith({"User not found."})
       /\ UnfollowUser(u, user_id) => RedirectedWith({NoFlash.msg})
       /\ CommonGames(u, user_id, None, None) =>
             RedirectedWith({"User not found."})

AbsentGameStep ==
    \A selected_tags \in TagForms :
       ManageGameTags(Len(game) + 1, selected_tags) =>
          RedirectedWith({"Game not found."})

\* C24: a request of follow_user, unfollow_user or common_games that names a
\* user without a row, and a request of manage_game_tags that names a game
\* without a row, writes nothing to the store and ends with a redirect (with
\* 'User not found.' or 'Game not found.' flashed, or with nothing flashed for
\* unfollow_user); no such request ends with an exception.
C24_AbsentIdsAreAnswered == [][AbsentUserStep /\ AbsentGameStep]_vars

\* a store with tags and a follow edge, after a request for an absent game
C24_Witness ==
    /\ flashed.msg = "Game not found."
    /\ game_tag /= EmptyBag
    /\ user_follows /= EmptyBag


\* ---------------------------------------------------------------------------
\* The sleeps of the tag thread around an item the store API rate-limits

\* the remote answered every request of the item with HTTP 429, the retries too
RateLimited(answer) == \A k \in DOMAIN answer : answer[k] = Status429

\* what the thread slept in the step: the part worker.slept grew by
SleptInStep == SubSeq(worker'.slept, Len(worker.slept) + 1, Len(worker'.slept))

\* C26: an iteration of the loop of fetch_tags_background whose item the remote
\* answered with HTTP 429 to the end sleeps the fixed 10 seconds (beside the backoff of
\* get_game_details) before the loop goes to the next item.
C26_BulkSleepOnRateLimit ==
    [][ \A answer \in TagAnswers, fault \in StoreFaults :
            (WorkerItem(answer, fault) /\ RateLimited(answer)) =>
                \E k \in DOMAIN SleptInStep : SleptInStep[k] = BulkDelay ]_vars


\* ---------------------------------------------------------------------------
\* Follow requests handled at the same time, statement by statement
\* (each request on its own connection of get_db)

MaxFollowRequests == 2

\* a request of follow_user that has entered the view
StartedFollow(u, user_id) ==
    [kind |-> "follow", u |-> u, user_id |-> user_id, pc |-> "lookup", dirty |-> FALSE,
     error |-> "none"]

IsFollow(i) == i \in DOMAIN threads /\ threads[i].kind = "follow"

FollowBegin(u, user_id) ==
    /\ Len(threads) < MaxFollowRequests
    /\ threads' = Append(threads, StartedFollow(u, user_id))
    /\ UNCHANGED <<store, now, txn, spawned, worker, remote_calls, resolved, flashed,
                   rendered, lastImport, requests>>

\* the SELECTs of the view: the user, the caller itself, the existing edge
FollowLookup(i) ==
    /\ IsFollow(i)
    /\ threads[i].pc = "lookup"
    /\ LET t == threads[i]
       IN  IF t.user_id \notin Users
           THEN /\ flashed' = [msg |-> "User not found."]
                /\ threads' = [threads EXCEPT ![i].pc = "done"]
                /\ rendered' = NoPage
           ELSE IF t.user_id = t.u
           THEN /\ flashed' = [msg |-> "You cannot follow yourself.", to |-> t.u]
                /\ threads' = [threads EXCEPT ![i].pc = "done"]
                /\ rendered' = NoPage
           ELSE IF ExistingFollow(user_follows, t.u, t.user_id)
           THEN /\ flashed' = [msg |-> "You are already following", user |-> t.user_id,
                               to |-> t.u]
                /\ threads' = [threads EXCEPT ![i].pc = "done"]
                /\ rendered' = NoPage
           ELSE /\ threads' = [threads EXCEPT ![i].pc = "insert"]
                /\ UNCHANGED <<flashed, rendered>>
    /\ UNCHANGED <<store, now, txn, spawned, worker, remote_calls, resolved, lastImport,
                   requests>>

\* the INSERT: it waits for the write lock of another connection; whether
\* user_follows has a UNIQUE (follower_id, following_id) is not in the source,
\* with it the INSERT of an edge that is there raises IntegrityError, which
\* the view does not catch
FollowInsert(i, unique) ==
    /\ IsFollow(i)
    /\ threads[i].pc = "insert"
    /\ ~WriteLockHeld(i)
    /\ LET t == threads[i]
       IN  IF unique /\ ExistingFollow(user_follows, t.u, t.user_id)
           THEN /\ threads' = [threads EXCEPT ![i].pc = "raised",
                                              ![i].error = "IntegrityError"]
                /\ rendered' = [page |-> "500"]
           ELSE /\ threads' = [threads EXCEPT ![i].pc = "commit", ![i].dirty = TRUE]
                /\ UNCHANGED rendered
    /\ UNCHANGED <<store, now, txn, spawned, worker, remote_calls, resolved, flashed,
                   lastImport, requests>>

\* db.commit(), the flash and the redirect
FollowCommit(i) ==
    /\ IsFollow(i)
    /\ threads[i].pc = "commit"
    /\ LET t == threads[i]
       IN  /\ user_follows' = InsertRow(user_follows,
                                  [follower_id |-> t.u, following_id |-> t.user_id,
                                   created_at |-> now])
           /\ flashed' = [msg |-> "You are now following", user |-> t.user_id, to |-> t.u]
    /\ threads' = [threads EXCEPT ![i].pc = "done", ![i].dirty = FALSE]
    /\ rendered' = NoPage
    /\ UNCHANGED <<game, user_game_library, game_tag, user_preferences, now, txn,
                   spawned, worker, remote_calls, resolved, lastImport, requests>>

NextFollowRace ==
    \/ \E u \in Users, user_id \in UserIds : FollowBegin(u, user_id)
    \/ \E i \in DOMAIN threads : FollowLookup(i)
    \/ \E i \in DOMAIN threads, unique \in BOOLEAN : FollowInsert(i, unique)
    \/ \E i \in DOMAIN threads : FollowCommit(i)

SpecFollowRace == InitRec /\ [][NextFollowRace]_vars

\* the edges from follower_id to following_id
Edges(follower_id, following_id) ==
    BagCardinality(DeleteWhere(user_follows,
                               LAMBDA r : ~(r.follower_id = follower_id
                                            /\ r.following_id = following_id)))

\* C27: whatever the order of the statements of the follow requests in flight,
\* user_follows holds no more than one edge from a follower to a user, and no
\* request has ended with an exception the view does not catch.
C27_ConcurrentFollowsOneEdge ==
    /\ \A u \in Users, user_id \in UserIds : Edges(u, user_id) <= 1
    /\ \A i \in DOMAIN threads : threads[i].pc /= "raised"


\* ---------------------------------------------------------------------------
\* What an iteration of the tag thread does to the tags of its game

\* the last response of the requests made for an item
LastResponse(answer) == answer[Len(answer)]

\* the fetch failed: the request raised, or the API answered success false
FetchFailed(answer) ==
    \/ LastResponse(answer).t \in {"HTTPError", "ConnectionError", "Exception"}
    \/ LastResponse(answer).t = "ok" /\ ~LastResponse(answer).success

\* the fetch was rate-limited to the last retry
RateLimitedOut(answer) == LastResponse(answer) = Status429

\* the details came, and no genre of them is a key of the alias table
OnlyUnmapped(answer) ==
    /\ LastResponse(answer).t = "ok"
    /\ LastResponse(answer).success
    /\ \A k \in DOMAIN LastResponse(answer).data.genres :
          LastResponse(answer).data.genres[k].description \in {FreeToPlay}

\* the rows of game_tag for a game, after the step
TagRowsAfter(game_id) ==
    DeleteWhere(game_tag', LAMBDA r : r.game_id /= game_id)

\* each tag of the list once, as rows of the game
RowsOfList(game_id, tags) ==
    SetToBag({ [game_id |-> game_id, tag |-> tags[k]] : k \in DOMAIN tags })

NumEnrichGames == 2

\* what the remote answers an item: two genres, a genre outside the alias
\* table, success false, 429 to the last retry, HTTP 500
EnrichAnswers ==
    { <<Ok([name |-> HL, genres |-> <<Description(Action), Description(RolePlaying)>>])>>,
      <<Ok([name |-> HL, genres |-> <<Description(FreeToPlay)>>])>>,
      <<[t |-> "ok", has_appid |-> TRUE, success |-> FALSE, data |-> NoSteamDetails]>>,
      <<Status429, Status429, Status429, Status429>>,
      <<[t |-> "HTTPError", status_code |-> 500]>> }

EnrichFaults == { fault \in StoreFaults : ~fault.has429 }

InitEnrich == InitWorkerOf(1..NumEnrichGames)

NextEnrich ==
    \/ \E answer \in EnrichAnswers, fault \in EnrichFaults : WorkerItem(answer, fault)
    \/ WorkerFinish

SpecEnrich == InitEnrich /\ [][NextEnrich]_vars

EnrichmentStep(answer, fault) ==
    LET game_info == worker.games_to_tag[worker.i]
        steam_tags == GetGameTagsFromSteam(game_info.appid, answer).tags
    IN  /\ (FetchFailed(answer) \/ RateLimitedOut(answer) \/ OnlyUnmapped(answer)) =>
              /\ steam_tags = <<>>
              /\ game_tag' = game_tag
        /\ steam_tags = <<>> => game_tag' = game_tag
        /\ (steam_tags /= <<>> /\ fault.at = "none") =>
              TagRowsAfter(game_info.game_id) = RowsOfList(game_info.game_id, steam_tags)
        /\ steam_tags /= <<>> =>
              \/ TagRowsAfter(game_info.game_id) = RowsOfList(game_info.game_id, steam_tags)
              \/ game_tag' = game_tag

NextVocabulary ==
    \/ \E i \in 1..2, answer \in RaceAnswers : TaskFetch(i, answer)
    \/ \E i \in 1..2 : TaskDelete(i)
    \/ \E i \in 1..2, reading \in BOOLEAN : TaskDeleteBusy(i, reading)
    \/ \E i \in 1..2 : TaskInsert(i)
    \/ \E i \in 1..2 : TaskCommit(i)
    \/ \E i \in 1..2 : TaskCommitBusy(i)
    \/ \E i \in 1..2 : TaskClose(i)
    \/ \E game_id \in {1, 2}, selected_tags \in RaceForms :
            ManageGameTags(game_id, selected_tags)
    \/ \E u \in Users, selected_tags \in PreferenceForms : Preferences(u, selected_tags)

SpecVocabulary == InitTagWriters /\ [][NextVocabulary]_vars

\* the 24 tags
Vocabulary == { POPULAR_TAGS[k] : k \in DOMAIN POPULAR_TAGS }

\* the tags a form names that are in the vocabulary
Submitted(selected_tags) == { selected_tags[k] : k \in DOMAIN selected_tags } \cap Vocabulary

StoredInVocabulary ==
    /\ Cardinality(Vocabulary) = 24
    /\ \A r \in Rows(game_tag) : r.tag \in Vocabulary
    /\ \A i \in DOMAIN threads :
          threads[i].kind = "tag_task" => \A r \in Rows(threads[i].tags) : r.tag \in Vocabulary
    /\ \A k \in DOMAIN user_preferences :
          /\ user_preferences[k].tag \in Vocabulary
          /\ user_preferences[k].weight = 1

PreferencesStep ==
    \A u \in Users, selected_tags \in PreferenceForms :
       Preferences(u, selected_tags) =>
          { user_preferences'[k].tag :
              k \in { n \in DOMAIN user_preferences' : user_preferences'[n].user_id = u } }
             = Submitted(selected_tags)

ManageGameTagsStep ==
    \A game_id \in DOMAIN game, selected_tags \in RaceForms :
       (ManageGameTags(game_id, selected_tags) /\ ~StoreLocked) =>
          { r.tag : r \in { x \in Rows(game_tag') : x.game_id = game_id } }
             = Submitted(selected_tags)

InitIsolation ==
    /\ game = CatalogGames(2)
    /\ user_game_library = LibraryOf([u \in Users |-> {1, 2}])
    /\ game_tag = InsertRow(EmptyBag, [game_id |-> 1, tag |-> Action])
    /\ user_preferences = << [user_id |-> 1, tag |-> Action, weight |-> PreferenceWeight],
                             [user_id |-> 2, tag |-> RPG, weight |-> PreferenceWeight] >>
    /\ user_follows = SetToBag({ [follower_id |-> 1, following_id |-> 2, created_at |-> 0],
                                 [follower_id |-> 2, following_id |-> 1, created_at |-> 0] })
    /\ now = 0
    /\ txn = NoTxn
    /\ spawned = <<>>
    /\ worker = NoWorker
    /\ threads = <<>>
    /\ remote_calls = <<>>
    /\ resolved = NoResolved
    /\ flashed = NoFlash
    /\ rendered = NoPage
    /\ lastImport = NoImport
    /\ requests = MaxRequests - 1

NextIsolation ==
    \/ \E u \in Users, r \in SteamRequests :
            SteamImportBegin(u, r.input, r.api_key, r.vanity, r.library, r.fetch_tags)
    \/ \E u \in Users, m \in ManualTexts : ManualImportBegin(u, m)
    \/ ImportStep(NoDetails)
    \/ ImportCommit
    \/ \E u \in Users, g \in 1..(Len(game) + 1) : RemoveGame(u, g)
    \/ \E u \in Users, user_id \in UserIds : FollowUser(u, user_id)
    \/ \E u \in Users, user_id \in UserIds : UnfollowUser(u, user_id)
    \/ \E u \in Users, selected_tags \in PreferenceForms : Preferences(u, selected_tags)

SpecIsolation == InitIsolation /\ [][NextIsolation]_vars

\* the rows that are a user's own: library entries, the edges the user follows
\* by, preferences
OwnRows(b) ==
    [library |-> DeleteWhere(user_game_library, LAMBDA r : r.user_id /= b),
     follows |-> DeleteWhere(user_follows, LAMBDA r : r.follower_id /= b),
     preferences |-> SelectSeq(user_preferences, LAMBDA row : row.user_id = b)]

\* the step left the rows of every user but a as they were
OthersKept(a) == \A b \in Users \ {a} : OwnRows(b)' = OwnRows(b)

\* the step took the caller's row for the game and nothing else
OnlyOwnRowRemoved(u, game_id) ==
    /\ game' = game
    /\ game_tag' = game_tag
    /\ \A r \in Rows(user_game_library') : r \in Rows(user_game_library)
    /\ \A r \in Rows(user_game_library) :
          IF r.user_id = u /\ r.game_id = game_id
          THEN r \notin Rows(user_game_library')
          ELSE /\ r \in Rows(user_game_library')
               /\ user_game_library'[r] = user_game_library[r]

\* the steps of an import change txn, and no other step does; the caller is
\* the user of the import
ImportIsolated ==
    txn' /= txn => OthersKept(IF Idle THEN txn'.user ELSE txn.user)

RemoveIsolated ==
    (txn' = txn /\ requests' /= requests) =>
        \A u \in Users, g \in 1..(Len(game) + 1) :
           RemoveGame(u, g) => (OthersKept(u) /\ OnlyOwnRowRemoved(u, g))

PreferencesIsolated ==
    (txn' = txn /\ requests' = requests /\ user_preferences' /= user_preferences) =>
        \A u \in Users, selected_tags \in PreferenceForms :
           Preferences(u, selected_tags) => OthersKept(u)

FollowIsolated ==
    (txn' = txn /\ requests' = requests /\ user_follows' /= user_follows) =>
        \A u \in Users, user_id \in UserIds :
           (FollowUser(u, user_id) \/ UnfollowUser(u, user_id)) => OthersKept(u)

IsolationStep == ImportIsolated /\ RemoveIsolated /\ PreferencesIsolated /\ FollowIsolated

\* C30: a request of a user (an import, the removal of a game, follow, unfollow,
\* a preferences form) leaves the library entries of every other user, the
\* edges another user follows by and the preferences of every other user as
\* they were; the removal of a game takes the caller's library row for it and
\* leaves the game row, the tags and every other library row.
C30_OtherUsersRowsKept == [][IsolationStep]_vars

\* user 1 has removed game 1, unfollowed user 2 and cleared the preferences,
\* and user 2 still has all of them
C30_Witness ==
    /\ OwnRows(1).library = DeleteWhere(user_game_library,
                                        LAMBDA r : r.user_id /= 1 \/ r.game_id = 1)
    /\ OwnRows(1).follows = EmptyBag
    /\ OwnRows(1).preferences = <<>>
    /\ BagCardinality(OwnRows(1).library) = 1
    /\ BagCardinality(OwnRows(2).library) = 2
    /\ BagCardinality(OwnRows(2).follows) = 1
    /\ Len(OwnRows(2).preferences) = 1
    /\ Len(game) = 2

====
